CONSTANTS
    e1 = e1
    e2 = e2
    e3 = e3
    s1 = s1
    Engagements <- ThreeWorkspaces
    EngagementOf <- EachOwnWorkspace
    MaxRuns = 3
    MaxConcurrentRuns = 1
    RepositoryCount = 1
    Cancellable = {2}
    Subscribers = {}
    MaxSelections = 0
    MaxCrashes = 0
SPECIFICATION Spec
INVARIANTS
    TypeOK
    OneActiveRunPerWorkspace
    SlotsFollowRuns
CHECK_DEADLOCK FALSE
