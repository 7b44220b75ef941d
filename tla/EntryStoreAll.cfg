SPECIFICATION FairSpec
CONSTANTS
    Clients = {c1, c2}
    Keys <- MCKeys
    Requests <- AllRequests
    MaxOps = 3
    MaxAborts = 1
    PageLimit = 1
    NoExpect = NoExpect
    NoMeta = NoMeta
    V2Dispatcher = TRUE
INVARIANT TypeOK
INVARIANT NoOrphanEntries
INVARIANT VersionNeverAhead
PROPERTY NoLateResurrection
PROPERTY EveryOperationReturns
CHECK_DEADLOCK FALSE
