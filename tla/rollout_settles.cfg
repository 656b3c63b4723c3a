SPECIFICATION FairSpec
CHECK_DEADLOCK FALSE
CONSTANTS
    NoGroup = "none"
    Groups <- MCGroups
    Devices = {1, 2}
    Members <- MCMembers
    Plans <- PlansLadder
    Scopes <- ScopesLadder
    MaxRings = 2
    ScopedSoak = 2
    expeditedSoak = 1
    HasBuilder = FALSE
    Origins = {"operator"}
    CommitKinds = {}
    Late = {1}
    Flaky = {}
    InitLog <- TwoCommits
    StartPinned = TRUE
    Targets = {2}
    MaxTime = 2
    MaxStarts = 1
    MaxFaults = 1
    MaxEdits = 1
INVARIANTS
    PromotedMeansOffered
    LaterWavesHeld
PROPERTIES
    StoppedMeansStill
    RunSettles
