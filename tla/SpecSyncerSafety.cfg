CONSTANTS
    Keys = {k1}
    Namespaces = {ns}
    NamespaceOf <- MCNamespaceOf
    Workers = {w1, w2}
    NoKey = NoKey
    ReadyLabels = {TRUE, FALSE}
    MaxWrites = 3
    MaxFaults = 1
    MaxRelists = 1
    MaxCrashes = 1
SPECIFICATION Spec
SYMMETRY Symmetry
INVARIANTS TypeOK WorkSerialised ReadyInSync
PROPERTIES NoRegression Replicates
CHECK_DEADLOCK FALSE
