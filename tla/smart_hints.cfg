\* Which disks are still read over the transport a scan names for them.
SPECIFICATION SmartSpec
CONSTANTS
    Disks = {"d1", "d2"}
    Hints = {"usb"}
    Bridges <- BridgeSet
    TrueHealth <- HealthOfDisk
    MaxSwaps = 0
CHECK_DEADLOCK FALSE
PROPERTIES
    HintsUntilAllQualified
