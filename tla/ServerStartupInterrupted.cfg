CONSTANTS
    Manifests <- MCManifests
    Watched <- MCWatched
    KubeControllers = {"namespace", "garbagecollector"}
    Listed = {"v1", "rbac", "node"}
    Prioritised = {"v1", "rbac", "events"}
    Survives = {TRUE}
    MaxFaults = 0
    MaxStops = 1
SPECIFICATION FairSpec
PROPERTY CrdsInstalled
CHECK_DEADLOCK FALSE
