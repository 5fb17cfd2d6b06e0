SPECIFICATION Spec
CONSTANTS
    p1 = p1
    Releaser <- MCReleaser
    Release <- MCRelease
    Plan = "plan"
    Elsewhere <- MCElsewhere
    Note <- MCNote
    SeedNames <- MCSeedNames
    Event <- MCEvent
    Retries = 2
    MaxExp = 1023
    CacheSize = 1
    SetCutoff = 1
    MaxRuns = 2
    MaxTrouble = 2
INVARIANTS
    OkTickIsMirror
    SentinelMeansPublished
    TagNamesThePage
    ChangesAreShown
PROPERTIES
    MirrorCatchesUp
CHECK_DEADLOCK FALSE
