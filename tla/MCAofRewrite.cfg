SPECIFICATION RewriteSpec
CONSTANTS
    p1 = p1
    p2 = p2
    Conns = {p1, p2}
    Capacity = 1
    BufCap = 3
    MaxAppends = 2
    MaxStarts = 1
    MaxRewrites = 2
CHECK_DEADLOCK FALSE
INVARIANTS
    SwapLosesNothing
    QuietListsExact
PROPERTIES
    SavedStaysSaved
