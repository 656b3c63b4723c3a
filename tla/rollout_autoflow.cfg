SPECIFICATION Spec
CHECK_DEADLOCK FALSE
CONSTANTS
    NoGroup = "none"
    Groups <- MCGroups
    Devices = {1, 2}
    Members <- MCMembers
    Plans <- PlansPlain
    Scopes <- ScopesLadder
    MaxRings = 2
    ScopedSoak = 2
    expeditedSoak = 1
    HasBuilder = FALSE
    Origins = {"autoflow"}
    CommitKinds = {"edit", "risky"}
    Late = {}
    Flaky = {}
    InitLog <- TwoCommits
    StartPinned = TRUE
    Targets = {1, 2}
    MaxTime = 4
    MaxStarts = 2
    MaxFaults = 0
    MaxEdits = 2
INVARIANTS
    RiskBrake

    
