\* The rate limiter, the collectors and the tools, one at a time.  Clocks, runs,
\* changes and tokens are bounded, and a single collection ends.
SPECIFICATION ComponentsSpec
CONSTANTS
    Keys = {k1, k2}
    Requests = {r1, r2}
    Capacity = 1
    Limit = 2
    Window = 2
    TTL = 6
    MinRetry = 1
    MaxLag = 2
    MaxClock = 6
    Disks = {"d1", "d2"}
    Hints = {"usb"}
    Bridges <- BridgeSet
    TrueHealth <- HealthOfDisk
    MaxSwaps = 1
    NameOrder <- Names
    NodeType <- TypeOfNode
    Transport <- Bus
    Volatile = {"zram0"}
    BootMedia = {}
    Namespaces <- Controllers
    Layouts <- LayoutSet
    Probes <- ProbeLists
    SmartLists <- SmartSets
    MaxDisks = 2
    MaxBacking = 2
    MaxDepth = 2
    Callers = {"s", "r"}
    BackoffDelays <- Delays
    MaxAcquisitions = 3
    MaxUnifiClock = 3
    SiteRequests <- SiteRequestList
    ByReference = {"wan_enriched"}
    GroupsFrom = "wan_enriched"
    MaxWanGroups = 2
    HttpAnswers = {"200", "404", "500"}
    SiteLists <- SiteListSet
    DeviceLists <- ScoreLists
    Wans <- WanList
    Devices = {"u"}
    IdentityOf <- Identities
    GatewayNames = {"wan", "wan2"}
    RoleNames = {"backup"}
    NameSets <- WanNameSets
    MaxWans = 2
    Rows <- RowList
    Catalogs <- CatalogSet
    Speeds = {1}
    MaxAge = 1
    MaxBytes = 1
    MaxChanges = 2
    MaxPortClock = 2
    Commands <- CommandList
    PeerLists <- PeerListSet
    Networks = {"net", "none"}
    MaxItems = 1
    Interval = 1
    MaxInstances = 2
    MaxTraffic = 1
    MaxUptime = 3
    HttpFailures = {"timeout"}
    RowLists <- RowSets
    RuleLists <- RuleSets
    CertLists <- CertSets
    WarningDays = 3
    ProfileNames = {"p", "q"}
    RawLists <- ProfileLists
    Observations <- ObservationSet
    MaxProfiles = 2
    MaxPages = 3
    MaxCounter = 3
    MaxRuns = 2
    MaxTokens = 4
    Tools = {"m1", "m2"}
    MaxSourceChanges = 1
CHECK_DEADLOCK FALSE
INVARIANTS
    BurstBounded
    NoInventedVerdict
    SilentTransportReplaced
    BackingIsComplete
    InventoryWithinBounds
    RefusedCredentialsRest
    
    AvailableMeansAll
    PortRatesOfOnePort
    WansKeptApart
    RestartSpoilsOneRate
    FailuresStayInModules
    ExportTellsItsAge
    TokenAccepted
    MigratedWhole
PROPERTIES
    RetryHonoured
