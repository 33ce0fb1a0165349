\* The backup of a mounted file when the file is about to be truncated.
\* Deadlock as in config.cfg.
SPECIFICATION Spec
CONSTANTS
    Items = {c1, s1}
    Certs = {c1}
    Admins = {a1}
    None = None
    MaxItems = 1
    Keep = 2
    MaxRunning = 2
    MaxTrouble = 2
CHECK_DEADLOCK FALSE
INVARIANTS
    BackupDurableBeforeTruncate
