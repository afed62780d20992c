CONSTANTS
    e1 = e1
    e2 = e2
    e3 = e3
    s1 = s1
    Engagements <- TwoWorkspaces
    EngagementOf <- EachOfTwo
    MaxRuns = 2
    MaxConcurrentRuns = 1
    RepositoryCount = 1
    Cancellable = {2}
    Subscribers = {}
    MaxSelections = 0
    MaxCrashes = 0
SPECIFICATION FairSpec
PROPERTIES
    RunsEnd
CHECK_DEADLOCK FALSE
