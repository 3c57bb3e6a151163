CONSTANTS
    Policies = {}
    ManagedClusters = {c1, c2}
    Addons = {}
    HubCrd = HubCrd
    OtherCrds = {}
    Workers = {w1, w2}
    NoKey = NoKey
    Availabilities = {"True"}
    PodNamespace = TRUE
    FaultPoints = {}
    Deletions = FALSE
    MaxWrites = 2
    MaxTouches = 0
    MaxFaults = 0
    MaxRelists = 0
    MaxCrashes = 0
SPECIFICATION Spec
INVARIANT ControlPlaneFollows
CHECK_DEADLOCK FALSE
