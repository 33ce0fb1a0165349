\* Two goroutines change and reload a document of a certificate and a server.
\* The server really stops: it does not start on a torn or oversized file when no
\* backup loads, and then nothing but an edit, which is bounded, helps.
SPECIFICATION Spec
CONSTANTS
    Items = {c1, s1}
    Certs = {c1}
    Admins = {a1, a2}
    None = None
    MaxItems = 1
    Keep = 2
    MaxRunning = 2
    MaxTrouble = 2
SYMMETRY Symmetry
CHECK_DEADLOCK FALSE
INVARIANTS
    NeverBehindAnswered
    TornIsRecoverable
    NoCertStuck
PROPERTIES
    OverwrittenIsKept
    ChangesAddUp
