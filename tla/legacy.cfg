\* A legacy device sharing the update counter and the file with a v2 device.
SPECIFICATION Spec
CONSTANTS
    V2Devices = {d1}
    LegacyDevices = {l1}
    Handlers = {h1}
    Agents = {a1, a2}
    Digests = {a}
    Mismatched = {}
    Stats = Stats
    None = None
    NoDigest = NoDigest
    MaxTime = 1
    MaxGeneration = 3
    MaxConnection = 2
    MaxFaults = 1
    MaxKills = 1
    MaxPowerFailures = 0
    MaxMisreads = 0
SYMMETRY SymmetryAll
INVARIANTS
    GenerationHeadroom
    GenerationsDistinct
    LiveMeansReportedSinceStart
PROPERTIES
    SupersededConnectionSilent
