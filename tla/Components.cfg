SPECIFICATION SideSpec
CONSTANTS
    Clients = {c1}
    Keys <- MCKeys
    Requests <- AllRequests
    MaxOps = 3
    MaxAborts = 0
    PageLimit = 1
    NoExpect = NoExpect
    NoMeta = NoMeta
    V2Dispatcher = TRUE
    Callers = {d1, d2}
    DataRequests <- DRequests
    Ids <- DIds
    Names <- DNames
    MaxIdLen = 2
    Slack = 1
    MaxListLimit = 3
    NoVal = NoVal
    MaxServed = 3
    WasmFns = {"f1","f2","f3","f4"}
    ModuleUrl <- WUrl
    Scheme <- WScheme
    Credentials = {TRUE, FALSE}
    World <- WWorld
    OwnShard <- WShard
    Refs <- WRefs
    RefStrings <- WStrings
    Fields = {"_raw", "k"}
    NoUrl = "none"
    MaxHostCalls = 3
    ScriptJobs = {j1, j2}
    ScriptRequests <- SRequests
    Hash <- SHash
    Packages = {"p"}
    Classes = {"c", "d"}
    NoFile = NoFile
    MaxRetries = 2
    MaxFaults = 3
    MaxCrashes = 1
    RenderCases <- RCases
    MaxLabel = 4
    SuffixLen = 1
    NoText = NoText
    Clusters <- NClusters
    Operators = {o1, o2}
    Proxies <- NProxies
    Scopes <- NScopes
    Conns = {k1}
    Directions = {1}
    Latencies = {5}
    NoLatency = NoLatency
    MaxOrders = 2
    MaxNetFaults = 1
    AdminSamples <- VSamples
    MaxSamples = 7
    Deployments <- VDeployments
    Measured <- VMeasured
    TargetRates = {NoTarget, 2, 7}
    CpuPerPod = 5
    SlowMs = 250
    NoTarget = NoTarget
    NoPart = NoPart
INVARIANT EventsFaithful
 
INVARIANT GuestsConfined
INVARIANT ArtifactsServed
 
INVARIANT LinksGoverned
INVARIANT OverviewListsLinksOnce
INVARIANT ViewsHold
 
CHECK_DEADLOCK FALSE
