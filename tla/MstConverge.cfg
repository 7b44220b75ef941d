SPECIFICATION FairSpec
CONSTANTS
    Nodes <- MCNodes
    Keys <- MCKeys
    Writers = {1, 2}
    Home <- MCHome
    Merge <- RemoteWins
    Stamp <- InOrder
    Durable = TRUE
    MaxWrites = 2
    MaxDeletes = 0
    MaxFaults = 0
PROPERTY Converges
CHECK_DEADLOCK FALSE
