SPECIFICATION Spec
CHECK_DEADLOCK FALSE
CONSTANTS
    NoGroup = "none"
    Groups <- MCGroups
    Devices = {1, 2}
    Members <- MCMembers
    Plans <- PlansGated
    Scopes <- ScopesAll
    MaxRings = 2
    ScopedSoak = 3
    expeditedSoak = 2
    HasBuilder = TRUE
    Origins = {"operator", "delivery", "autoflow"}
    CommitKinds = {"edit"}
    Late = {}
    Flaky = {}
    InitLog <- OneCommit
    StartPinned = FALSE
    Targets = {1, 2}
    MaxTime = 2
    MaxStarts = 2
    MaxFaults = 1
    MaxEdits = 1
INVARIANTS
    TypeOK
    WavesSpaced
    ApprovalRespected
