SPECIFICATION FairSpec
CONSTANTS
    Configs <- MCConfigs
    Keys = {k1, k2}
    NoKey = NoKey
    MaxStreams = 2
INVARIANTS
    NoOrphanCompositor
    StateMatchesSource
PROPERTIES
    CancelReleases
    CaptureLossCleansUp
