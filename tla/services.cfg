SPECIFICATION ServicesSpec
CONSTANTS
    Requests = {"edit", "bulk"}
    HostsOf <- GateHosts
    FleetHosts <- GateFleet
    HostVariants <- GateVariants
    BrokenAt <- GateBroken
    ConflictAt <- GateConflict
    MaxConcurrent = 2
    ChunkSize = 3
    Workers = 2
    MaxMain = 2
    MaxTimeouts = 2
    BuildKeys <- ReleaseKeys
    ReleaseChunk = 2
    MaxBuildFaults = 2
    Replicas = {"ra", "rb"}
    MaxHead = 2
    MaxWorkFaults = 2
    Configs <- Machines
    Enclosures <- BareOrFull
    MaxDispatch = 2
    MaxImgFaults = 1
    Enrolments = {"e1", "e2"}
    NameOf <- TypedName
    Serials <- Plugged
    OldDevices = {"m", "k"}
    Covering <- RingsOf
    Rings = {1, 2}
    MaxDocs = 4
    ArmWipe = TRUE
    AllowUnlockedWipe = FALSE
    Intents = {"reboot", "lock", "wipe", "diagnostics"}
    WipeWindow = 0
    Orders <- Errands
    MaxBundles = 2
    MaxClock = 2
    MaxActFaults = 1
    SeedDocs <- MCSeeds
    NameOrder <- MCOrder
    Classes = {"laptop", "desk"}
    ClassFilters = {"class-laptop", "class-desk"}
    HardwarePolicies <- MCHardware
    Baseline <- MCBaseline
    EditRefs <- MCRefs
    EditGroups = {"top", "side"}
    EditValues = {"on"}
    AppNames = {"app"}
    FreshGroup = "new"
    FreshTag = "d9"
    Policies <- MCPolicies
    Filters <- MCFilters
    Profiles <- MCProfiles
    Bindings <- MCBindings
    AccessGrants <- MCGrants
    Plans <- MCPlans
    Ladders <- MCLadders
    MaxWrites = 2
    Tags = {"d1", "d2"}
    InFleet = {"d1"}
    DeviceWindow = 0
    MaxDay = 1
    MaxCommits = 2
    MaxInFlight = 1
    Secrets = {"c1"}
    Fetches = {"q1", "q2"}
    VerifyTTL = 2
    AskTimeout = 1
    VerifiedCap = 0
    MaxTick = 5
    ElevationIds = {"r1"}
    Operators = {"ann", "bob"}
    TTL = 2
    KeepFor = 3
    MaxNow = 5
    IdPGroups = {"eng"}
    FirstDoc <- AccessDoc
    AccessChoices <- AccessEdits
    MintRequests <- AskedTokens
    Calls = {"q1"}
    SessionTTL = 0
    CacheTTL = 1
    DialTimeout = 0
    MaxListed = 1
    CookieGroups = 1
    GraphAttempts = 3
    MaxMoves = 4
    MaxHour = 2
    Main <- MCMain
    FirstHeld = 3
    Stray = "stray"
    CoreOf <- MCCoreOf
    CorePinned <- MCCorePinned
    BoardDoc <- WatchedDoc
    Laptop = "d1"
    Beats = {"b1", "b2"}
    Reports <- MCReports
    Conditions <- MCConditions
    StalePolicies = {"p"}
    OnlineWindow = 0
    InactiveWindow = 0
    CoreGrace = 0
    StallWindow = 1
    MaxBoardMoves = 2
    MaxBoardDay = 1
    Assignable = {"d1"}
    MaxErasureMoves = 3
    MaxErasureFaults = 1
INVARIANTS
    WipeToldOnce BoardIsTrue ErasureIsHonest
    AnswersAreTrue DoneIsPublished WorkersExclusive
    StatusIsEarned RebootOnce HandedOver
    TwinsAgree NothingDangles CacheStaleness
PROPERTIES
    RequestsAnswered BuildSettles WatcherCatchesUp
    QuietAdvance DispatchedIsKnown
    EveryBuildProved SweepSparesFleet VerdictStands
    RightsExpire DeletedGroupsDie
CHECK_DEADLOCK FALSE
