\* A replay answered 202 after a restart, before the directory is fsynced again.
SPECIFICATION Spec
CONSTANTS
    V2Devices = {d1}
    LegacyDevices = {}
    Handlers = {h1}
    Agents = {}
    Digests = {a}
    Mismatched = {}
    Stats = Stats
    None = None
    NoDigest = NoDigest
    MaxTime = 1
    MaxGeneration = 2
    MaxConnection = 0
    MaxFaults = 0
    MaxKills = 1
    MaxPowerFailures = 1
    MaxMisreads = 0
INVARIANTS
    AnsweredSurvivesPowerLoss
