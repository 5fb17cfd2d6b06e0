SPECIFICATION Spec
CONSTANTS
    p1 = p1
    p2 = p2
    Proc <- MCProc
    May <- MCMay
    Bridge <- MCBridge
    Session <- MCSession
    Caption <- MCCaption
    MaxTexts = 2
    MaxOps = 3
    MaxStarts = 1
    MaxKills = 1
INVARIANTS
    HandsFollowItems
    AckedSurvives
    FinalizedHasFiles
    PanelTrails
    PlanWasReadBack
CHECK_DEADLOCK FALSE
