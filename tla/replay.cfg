\* One device, conflicting and mismatched bodies: replays across failures and restarts.
SPECIFICATION Spec
CONSTANTS
    V2Devices = {d1}
    LegacyDevices = {}
    Handlers = {h1, h2}
    Agents = {}
    Digests = {a, b, c}
    Mismatched = {c}
    Stats = Stats
    None = None
    NoDigest = NoDigest
    MaxTime = 2
    MaxGeneration = 3
    MaxConnection = 0
    MaxFaults = 1
    MaxKills = 1
    MaxPowerFailures = 1
    MaxMisreads = 0
SYMMETRY Symmetry
PROPERTIES
    NeverAcceptedTwice
    ImplementsReportStore
