SPECIFICATION Spec
CONSTANTS
    Nodes = {1, 2, 3}
    Primary = 1
    Requests <- MCRequests
    Kind <- MCKind
    Writes <- MCWrites
    Entry <- MCEntry
    Keys = {"k1", "k2"}
    InitAll = FALSE
    MaxBallot = 2
    LogsSinceLast = 4
    MaxBuilds = 1
    KeepLogs = 0
    Stopping = {1}
 
 
INVARIANT RequestsAnswered
CHECK_DEADLOCK FALSE
