SPECIFICATION Spec
CONSTANTS
    p1 = p1
    Releaser <- MCReleaser
    Release <- MCRelease
    Plan = "plan"
    Elsewhere <- MCElsewhere
    Note <- MCNote
    SeedNames <- MCSeedNames
    Event <- MCEvent
    Retries = 2
    SetCutoff = 1
    MaxExp = 1023
    CacheSize = 1
    MaxRuns = 1
    MaxTrouble = 0
INVARIANT EventsAfterCutoffAreIncluded
CHECK_DEADLOCK FALSE
