CONSTANTS
    u1 = u1
    u2 = u2
    u3 = u3
    NoUnit = NoUnit
    Units <- PairUnits
    Revision <- PairRevision
    Deps <- PairDeps
    Required <- PairRequired
    Destructive = {}
    MaxRevision = 1
    MaxLimit = 2
    Concurrency = 2
    MaxApprovals = 0
    TokenScopes = {}
SPECIFICATION RetriedSpec
PROPERTY EveryExpiredLeaseIsReconciled
CHECK_DEADLOCK FALSE
