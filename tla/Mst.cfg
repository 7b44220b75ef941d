SPECIFICATION FairSpec
CONSTANTS
    Nodes <- MCNodes
    Keys <- MCKeys
    Writers = {1, 2}
    Home <- MCHome
    Merge <- SimpleLww
    Stamp <- InOrder
    Durable = FALSE
    MaxWrites = 2
    MaxDeletes = 1
    MaxFaults = 1
INVARIANT AdvertisedIsServable
PROPERTY HealsToNewest
PROPERTY KeysSpread
CHECK_DEADLOCK FALSE
