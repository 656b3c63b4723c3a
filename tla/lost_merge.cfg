SPECIFICATION Spec
CHECK_DEADLOCK FALSE
CONSTANTS
    Items <- MCItems
    Bad <- MCBad
    Initial = {}
    Direct = {}
    Structural = {}
    External = {}
    maxPushRetries = 2
    FaultKinds = {}
    MaxFaults = 0
    Changes = {"c1", "c2"}
    EditsOf <- MCEdits
    Files = {"b"}
    People = {"ann", "bob"}
    NoSubject = "none"
    AuthorOf <- MCAuthors
    RequireFourEyes = FALSE
INVARIANTS
    LandedIsPublished
