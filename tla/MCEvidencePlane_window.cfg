SPECIFICATION Spec
CONSTANTS
    HandoffId = "h1"
    TaskId = "t1"
    Paths <- MCPaths
    Rewrites <- NoRewrites
    Tests <- MCTests
    Dirs <- WindowDirs
    Labels <- WindowLabels
    Bases <- WindowBases
    Rivals <- WindowRivals
    Limits = {2}
    MinPage = 2
    MaxRefs = 512
    MaxTrouble = 0
    MaxEdits = 0
    MaxRivals = 2
    MaxPuts = 1
INVARIANT ReadyIsTheLatest
CHECK_DEADLOCK FALSE
