SPECIFICATION Spec
CHECK_DEADLOCK FALSE
CONSTANTS
    NoGroup = "none"
    Groups <- MCGroups
    Devices = {2, 3}
    Members <- MCMembers
    Plans <- PlansSoaked
    Scopes <- ScopesLadder
    MaxRings = 2
    ScopedSoak = 2
    expeditedSoak = 2
    HasBuilder = FALSE
    Origins = {"operator"}
    CommitKinds = {}
    Late = {3}
    Flaky = {2}
    InitLog <- TwoCommits
    StartPinned = FALSE
    Targets = {2}
    MaxTime = 4
    MaxStarts = 1
    MaxFaults = 0
    MaxEdits = 1
INVARIANTS
    CohortCap
    ReleasedIsPrefix
    PinMatchesBranch
