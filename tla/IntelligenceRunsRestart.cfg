CONSTANTS
    e1 = e1
    e2 = e2
    e3 = e3
    s1 = s1
    Engagements <- OneWorkspace
    EngagementOf <- SameWorkspace
    MaxRuns = 2
    MaxConcurrentRuns = 1
    RepositoryCount = 1
    Cancellable = {1}
    Subscribers = {s1}
    MaxSelections = 1
    MaxCrashes = 2
SPECIFICATION Spec
CONSTRAINT
    SuccessorOfUncancelled
INVARIANTS
    StreamsFollowTheirRun
    InactiveRunsAreTerminal
PROPERTIES
    FinishedRunsAreImmutable
    CurrentAdvancesToValidRuns
CHECK_DEADLOCK FALSE
