\* The model shown with a configured provider, over three runs.
SPECIFICATION HermesSpec
CONSTANTS
    ProfileNames = {"p"}
    RawLists <- ProfileLists
    Observations <- ObservationSet
    MaxProfiles = 1
    MaxPages = 2
    MaxCounter = 3
    MaxRuns = 3
CHECK_DEADLOCK FALSE
INVARIANTS
    ConfiguredProviderKeepsItsModel
