SPECIFICATION FairSpec
CONSTANTS
    Clusters = {FALSE}
    Fsm = TRUE
    Odgm = TRUE
    Enforce = TRUE
    Counts = {1, 2}
    Samples <- MCSamples
    PerReplica = 500
    SlowMs = 250
    MaxReplicas = 2
    Stability = 0
    Cooldown = 1
    MaxEvents = 2
    NoCr = NoCr
INVARIANT RestsSettled
INVARIANT NothingLeftBehind
PROPERTY EventuallyApplied
CHECK_DEADLOCK FALSE
