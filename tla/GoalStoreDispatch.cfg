CONSTANTS
    u1 = u1
    u2 = u2
    u3 = u3
    NoUnit = NoUnit
    Units <- TripleUnits
    Revision <- TripleRevision
    Deps <- TripleDeps
    Required <- TripleRequired
    Destructive = {}
    MaxRevision = 1
    MaxLimit = 2
    Concurrency = 2
    MaxApprovals = 0
    TokenScopes = {}
SPECIFICATION FairSpec
INVARIANTS
    LiveAttemptsOwnTheirUnit
    OutboxFollowsAttempt
    ReleasedDispatchIsProbed
    FencedSessionHasCancellation
    OnlyFencedAttemptsAreCancelled
    ExpiredMeansNeverDispatched
    AttemptsArePaidFor
    WorkRespectsPlan
    AcceptedMeansVerified
PROPERTIES
    LateReferenceReopensCancellation
    ExpiredLeasesAreReconciled
    ClaimsGetASessionOrAreGivenUp
CHECK_DEADLOCK FALSE
