SPECIFICATION Spec
CONSTANTS
    Clients = {c1, c2}
    Keys <- MCKeys
    Requests <- CasRequests
    MaxOps = 2
    MaxAborts = 0
    PageLimit = 1
    NoExpect = NoExpect
    NoMeta = NoMeta
    V2Dispatcher = TRUE
INVARIANT CasExclusive
CHECK_DEADLOCK FALSE
