CONSTANTS
    d1 = d1
    d2 = d2
    d3 = d3
    old = old
    Nobody = Nobody
    Daemons <- MixedDaemons
    Legacy <- MixedLegacy
SYMMETRY AnyDaemon
SPECIFICATION LockSpec
INVARIANTS
    OneOwner
    GuardsAreLeftOnlyByDeath
    StartRaceIsWon
PROPERTIES
    InspectionIsTrue
