SPECIFICATION FairSpec
CHECK_DEADLOCK FALSE
CONSTANTS
    NoGroup = "none"
    Groups <- MCGroups
    Devices = {2, 3}
    Members <- MCMembers
    Plans <- PlansOffice
    Scopes <- ScopesLadder
    MaxRings = 2
    ScopedSoak = 2
    expeditedSoak = 0
    HasBuilder = FALSE
    Origins = {"operator"}
    CommitKinds = {}
    Late = {2}
    Flaky = {}
    InitLog <- TwoCommits
    StartPinned = FALSE
    Targets = {1, 2}
    MaxTime = 4
    MaxStarts = 1
    MaxFaults = 0
    MaxEdits = 0
PROPERTIES
    RunSettles
