CONSTANTS
    Policies = {p1}
    ManagedClusters = {c1}
    Addons = {}
    HubCrd = HubCrd
    OtherCrds = {}
    Workers = {w1, w2}
    NoKey = NoKey
    Availabilities = {"NoConditions"}
    PodNamespace = TRUE
    FaultPoints = {"hcpMain", "hcpStatus", "get", "update", "applyMain", "applyStatus"}
    Deletions = TRUE
    MaxWrites = 2
    MaxTouches = 0
    MaxFaults = 1
    MaxRelists = 1
    MaxCrashes = 0
SPECIFICATION Spec
SYMMETRY Symmetry
INVARIANTS TypeOK StatusInSync
PROPERTY Replicates
CHECK_DEADLOCK FALSE
