CONSTANTS
    Keys = {k1}
    Namespaces = {ns}
    NamespaceOf <- MCNamespaceOf
    Workers = {w1, w2}
    NoKey = NoKey
    ReadyLabels = {TRUE}
    MaxWrites = 3
    MaxFaults = 1
    MaxRelists = 1
    MaxCrashes = 1
SPECIFICATION FairSpec
INVARIANT DeletedInSync
PROPERTIES ReadyArrives DeletionArrives
CHECK_DEADLOCK FALSE
