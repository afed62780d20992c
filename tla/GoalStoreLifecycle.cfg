CONSTANTS
    u1 = u1
    u2 = u2
    u3 = u3
    NoUnit = NoUnit
    Units <- PairUnits
    Revision <- RevisedRevision
    Deps <- PairDeps
    Required <- PairUnits
    Destructive <- RevisedDestructive
    MaxRevision = 2
    MaxLimit = 2
    Concurrency = 1
    MaxApprovals = 1
    TokenScopes <- RevisedScopes
SPECIFICATION Spec
CONSTRAINT SettledElsewhere
INVARIANTS
    IndInv
    AchievementIsFinal
PROPERTIES
    OnlyOperatorSettlesUnknownWork
    NothingIsRevived
    ImplementsLifecycle
CHECK_DEADLOCK FALSE
