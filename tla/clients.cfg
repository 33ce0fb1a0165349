\* The client's concurrent parts: reporting through losses, delays, clock steps
\* and restarts; monitors installed one after another; domains collected by
\* a process that is killed.  Installations and lives are bounded.
SPECIFICATION FairSpec
CONSTANTS
    Digests = {"a", "b"}
    Interval = 3
    Base = 2
    Cap = 3
    Slow = 2
    MaxAttempt = 1
    ReadTimeout = 2
    Skew = 4
    Offsets <- ClockOffsets
    MaxInFlight = 1
    Names = {n1}
    Targets = {x, y}
    NotMeasured = NotMeasured
    MaxGeneration = 3
    MaxStartFailures = 1
    TaskOrder <- TwoDomains
    Optional = {"hardware", "hermes"}
    MaxLives = 2
    MaxLitter = 2
CHECK_DEADLOCK FALSE
INVARIANTS
    AttemptsSupersede
    OneThreadEach
    LatencyOfCurrentTarget
    FirstPayloadComplete
PROPERTIES
    ReportingResumes
    ReplacedThreadsEnd
    DomainsKeepCollecting
