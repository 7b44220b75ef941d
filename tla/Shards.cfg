SPECIFICATION FairShards
CONSTANTS
    Node = 1
    Members <- MCMembers
    Plans <- MCPlans
    Functions <- MCFunctions
    StandbyFns <- MCStandby
    ActiveGroup = {}
    OnlyPrimary = FALSE
    Durable = TRUE
    MaxFailures = 1
    MaxEvents = 2
    ShardIds = {1, 2, 3}
    Peers = {3}
    MaxInstances = 2
 
INVARIANT ActiveCounted
PROPERTY CollectionsLoaded
PROPERTY StandbyFollows
CHECK_DEADLOCK FALSE
