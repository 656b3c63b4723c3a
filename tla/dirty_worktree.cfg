SPECIFICATION Spec
CHECK_DEADLOCK FALSE
CONSTANTS
    Items <- MCItems
    Bad <- MCBad
    Initial = {}
    Direct = {}
    Structural = {"s"}
    External = {"e"}
    maxPushRetries = 2
    FaultKinds = {"commit", "put"}
    MaxFaults = 2
    Changes = {"c1", "c2"}
    EditsOf <- MCEdits
    Files = {"b"}
    People = {"ann", "bob"}
    NoSubject = "none"
    AuthorOf <- MCAuthorsBoth
    RequireFourEyes = TRUE
INVARIANTS
    ReadyWithinProof
