CONSTANTS
    Hubs = {h1}
    Global = Global
    NoLabel = NoLabel
    HubLabels = {Global}
    Clusters = {c1}
    ClusterStates = {"Compliant", "Pending"}
    Width = 2
    Steps = 5
    EmptyReports = FALSE
    Deletions = TRUE
    MaxWrites = 4
    MaxFaults = 1
    MaxRelists = 1
    MaxResyncs = 1
    MaxRestarts = 1
    MaxTogether = 1
SPECIFICATION FairSpec
INVARIANTS TotalsMatch SummaryCurrent
PROPERTIES NoLostWrite LabelledUnlessFaulty
CHECK_DEADLOCK FALSE
