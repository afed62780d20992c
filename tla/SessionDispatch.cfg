CONSTANTS
    u1 = u1
    NoUnit = NoUnit
    Units <- OneUnit
    Revision <- OneRevision
    Deps <- NoDeps
    Required <- OneUnit
    Destructive = {}
    MaxRevision = 1
    MaxLimit = 2
    Concurrency = 2
    MaxApprovals = 1
    TokenScopes = {"resume"}
    MaxSessions = 2
    MaxFaults <- FaultsOfOne
SPECIFICATION SessionSpec
INVARIANTS
    OnePromptedSession
    ExpiredHasNoSession
    AcceptedFromOwnSession
PROPERTIES
    OnlyFencedWorkIsAborted
CHECK_DEADLOCK FALSE
