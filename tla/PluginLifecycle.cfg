CONSTANTS
    p1 = p1
    p2 = p2
    c1 = c1
    c2 = c2
    None = None
    Plugins <- TwoPlugins
    Calls <- TwoCalls
    Failing <- AllFailures
    MaxFailures = 1
    MaxCrashes = 1
SPECIFICATION FairPluginSpec
CONSTRAINT BystanderAndRestart
INVARIANTS
    LockedPluginsHaveFiles
    SuccessIsDurable
PROPERTIES
    LockFollowsRecords
    CallsEnd
