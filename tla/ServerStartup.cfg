CONSTANTS
    Manifests <- MCManifests
    Watched <- MCWatched
    KubeControllers = {"namespace", "garbagecollector"}
    Listed = {"v1", "rbac", "node"}
    Prioritised = {"v1", "rbac", "events"}
    Survives = {TRUE, FALSE}
    MaxFaults = 1
    MaxStops = 1
SPECIFICATION FairSpec
INVARIANTS TypeOK InstalledInOrder HealthyMeansAvailable SecretsMatch
PROPERTIES CrdServicesKept ServerComesUp HubControllersComeUp
CHECK_DEADLOCK FALSE
