CONSTANTS
    e1 = e1
    e2 = e2
    e3 = e3
    s1 = s1
    Engagements <- OneWorkspace
    EngagementOf <- SameWorkspace
    MaxRuns = 1
    MaxConcurrentRuns = 1
    RepositoryCount = 1
    Cancellable = {1}
    Subscribers = {}
    MaxSelections = 0
    MaxCrashes = 0
SPECIFICATION Spec
PROPERTIES
    CancelledRunsAreImmutable
CHECK_DEADLOCK FALSE
