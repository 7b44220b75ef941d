SPECIFICATION FairSpec
CONSTANTS
    Senders = {s1, s2}
    Contexts <- MCContexts
    QueueBound = 1
    FanoutCap = 2
    CounterSize = 8
    MaxTriggerDepth = 10
    MaxEvents = 3
    MaxFailures = 1
INVARIANT CountersHonest
INVARIANT FanoutExact
PROPERTY EventsDelivered
CHECK_DEADLOCK FALSE
