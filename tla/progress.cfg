\* No crash: requests are answered and legacy updates reach the disk.
SPECIFICATION FairSpec
CONSTANTS
    V2Devices = {d1}
    LegacyDevices = {l1}
    Handlers = {h1, h2}
    Agents = {a1}
    Digests = {a}
    Mismatched = {}
    Stats = Stats
    None = None
    NoDigest = NoDigest
    MaxTime = 1
    MaxGeneration = 2
    MaxConnection = 1
    MaxFaults = 1
    MaxKills = 0
    MaxPowerFailures = 0
    MaxMisreads = 0
PROPERTIES
    RequestAnswered
    LegacyEventuallyStored
