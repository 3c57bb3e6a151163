CONSTANTS
    Keys = {k1}
    Namespaces = {ns}
    NamespaceOf <- MCNamespaceOf
    Workers = {w1}
    NoKey = NoKey
    ReadyLabels = {TRUE}
    MaxWrites = 1
    MaxFaults = 0
    MaxRelists = 1
    MaxCrashes = 0
SPECIFICATION FairSpec
PROPERTY RegionalHubFollows
CHECK_DEADLOCK FALSE
