CONSTANTS
    Hubs = {h1, h2}
    Global = Global
    NoLabel = NoLabel
    HubLabels = {Global}
    Clusters = {c1}
    ClusterStates = {"Compliant", "NonCompliant"}
    Width = 2
    Steps = 5
    EmptyReports = TRUE
    Deletions = TRUE
    MaxWrites = 5
    MaxFaults = 0
    MaxRelists = 0
    MaxResyncs = 0
    MaxRestarts = 0
    MaxTogether = 0
SPECIFICATION Spec
SYMMETRY Symmetry
INVARIANTS TypeOK LabelledWhenQuiet SummaryCurrent TotalsMatch
PROPERTY NoLostWrite
CHECK_DEADLOCK FALSE
