SPECIFICATION Spec
CONSTANTS
    HandoffId = "h1"
    TaskId = "t1"
    Paths <- MCPaths
    Rewrites <- MCRewrites
    Tests <- MCTests
    Dirs <- MCDirs
    Labels <- MCLabels
    Bases <- MCBases
    Rivals <- MCRivals
    Limits = {2, 3}
    MinPage = 2
    MaxRefs = 512
    MaxTrouble = 1
    MaxEdits = 1
    MaxRivals = 1
    MaxPuts = 2
INVARIANTS
    PassMeansCovered
    ReadyMeansArchived
    NewerIsOutOfReach
    AckedRowStays
    ConflictsAreReal
    EventsFollowObjects
CHECK_DEADLOCK FALSE
