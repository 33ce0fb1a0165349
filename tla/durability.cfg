\* Two devices and two handlers: which reports survive which crash.
\* The server really stops: it refuses to start on a damaged file with no backup.
SPECIFICATION Spec
CONSTANTS
    V2Devices = {d1, d2}
    LegacyDevices = {}
    Handlers = {h1, h2}
    Agents = {}
    Digests = {a}
    Mismatched = {}
    Stats = Stats
    None = None
    NoDigest = NoDigest
    MaxTime = 2
    MaxGeneration = 3
    MaxConnection = 0
    MaxFaults = 1
    MaxKills = 1
    MaxPowerFailures = 1
    MaxMisreads = 1
SYMMETRY SymmetryAll
CHECK_DEADLOCK FALSE
INVARIANTS
    AcceptedSurvivesPowerLoss
    AnsweredSurvivesKill
    ShownIsStored
    MisreadLosesOneReport
