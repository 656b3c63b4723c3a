SPECIFICATION Spec
CHECK_DEADLOCK FALSE
CONSTANTS
    NoGroup = "none"
    Groups <- MCGroups
    Devices = {2, 3}
    Members <- MCMembers
    Plans <- PlansOffice
    Scopes <- ScopesLadder
    MaxRings = 2
    ScopedSoak = 2
    expeditedSoak = 1
    HasBuilder = FALSE
    Origins = {"operator"}
    CommitKinds = {}
    Late = {}
    Flaky = {}
    InitLog <- TwoCommits
    StartPinned = FALSE
    Targets = {1, 2}
    MaxTime = 4
    MaxStarts = 2
    MaxFaults = 0
    MaxEdits = 0
INVARIANTS
    CohortCap
