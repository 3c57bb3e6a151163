CONSTANTS
    Hubs = {h1, h2}
    Global = global
    Local = local
    NoLabel = nolabel
    States = {compliant, noncompliant}
    NoState = nostate
    MaxChanges = 3
SPECIFICATION FairSpec
INVARIANTS TypeOK Origin SummaryComplete
PROPERTY HubsFollow
CHECK_DEADLOCK FALSE
