CONSTANTS
    Policies = {p1}
    ManagedClusters = {c1}
    Addons = {a1}
    HubCrd = HubCrd
    OtherCrds = {x1}
    Workers = {w1, w2}
    NoKey = NoKey
    Availabilities = {"NoConditions", "True"}
    PodNamespace = TRUE
    FaultPoints = {"hcpMain", "hcpStatus", "get", "update", "applyMain", "applyStatus"}
    Deletions = FALSE
    MaxWrites = 2
    MaxTouches = 1
    MaxFaults = 1
    MaxRelists = 0
    MaxCrashes = 1
SPECIFICATION FairSpec
INVARIANTS ControlPlaneInSync StatusInSync
PROPERTY StatusArrives
CHECK_DEADLOCK FALSE
