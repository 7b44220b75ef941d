SPECIFICATION FairSpec
CONSTANTS
    Requests = {"app", "first", "second", "drop"}
    Args <- MCArgs
    Keys = {"k"}
    PackageOf <- MCPackageOf
    Deps <- MCDeps
    Envs = {"e1", "e2", "e3", "e4"}
    Availabilities <- MCAvailabilities
    Target = 85
    Strong = {}
    MaxReplicas = 50
    MaxRetries = 1
    RollbackOnPartial = TRUE
    Cascade = TRUE
    Unstable = {"e1", "e2"}
    MaxFaults = 1
    None = None
INVARIANT RetryCreatesNoSecondUnit
INVARIANT TidyKeysSettled
 
 
CHECK_DEADLOCK FALSE
