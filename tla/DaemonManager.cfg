CONSTANTS
    m1 = m1
    m2 = m2
    m3 = m3
    s1 = s1
    s2 = s2
    hand = hand
    i1 = i1
    i2 = i2
    Nothing = Nothing
    Managers <- ThreeManagers
    Departed <- OneDeparted
    Daemons <- ThreeDaemons
    ByHand <- OneByHand
    Identities <- TwoServices
    Wanted <- OneEach
    MaxCalls = 1
SYMMETRY Alike
SPECIFICATION ManagerSpec
INVARIANTS
    OneMutationAtATime
PROPERTIES
    SuccessIsManaged
    StoppedMeansStopped
CHECK_DEADLOCK FALSE
