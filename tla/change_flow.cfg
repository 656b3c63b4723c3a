SPECIFICATION FairSpec
CHECK_DEADLOCK FALSE
CONSTANTS
    Items <- MCItems
    Bad <- MCBad
    Initial = {}
    Direct = {"d"}
    Structural = {}
    External = {"e"}
    maxPushRetries = 2
    FaultKinds = {"push", "put", "cleanup", "reset", "crash"}
    MaxFaults = 1
    Changes = {"c1", "c2"}
    EditsOf <- MCEdits
    Files = {"b"}
    People = {"ann", "bob"}
    NoSubject = "none"
    AuthorOf <- MCAuthors
    RequireFourEyes = FALSE
INVARIANTS
    TypeOK
    ReadyIsProved
    SavedEditsMerged
PROPERTIES
    KeepsPromise
    SubmitEnds
