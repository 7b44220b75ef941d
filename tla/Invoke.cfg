SPECIFICATION FairSpec
CONSTANTS
    c1 = c1
    c2 = c2
    None = None
    Clients = {c1, c2}
    Fns = {"w", "r", "x"}
    Route <- MCRoute
    Body <- MCBody
    Requests <- MCRequests
    Workers = 1
    MaxOpen = 1
    MaxDepth = 2
    MaxCalls = 3
 
INVARIANT NothingHeld
PROPERTY EveryCallEnds
CHECK_DEADLOCK FALSE
