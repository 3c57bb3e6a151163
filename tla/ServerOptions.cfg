CONSTANTS
    Values <- MCValues
    MaxFlags = 4
    Unreadable = {"bad"}
    InvalidRanges = {"bad"}
    SmallRanges = {"tiny"}
    LowBound = 2
    UpBound = 4
    DefaultSizes <- MCDefaultSizes
SPECIFICATION Spec
INVARIANTS TypeOK ValidateForesees IssuedTokensAccepted AnonymousRestricted
    ServingKeyApart ServingCertForService
CHECK_DEADLOCK FALSE
