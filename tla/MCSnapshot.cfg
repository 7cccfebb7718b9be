CONSTANTS
    FreshFor = 1
    Reloads = TRUE
    ClearDuringLoad = FALSE
    MaxVersion = 3
    MaxClock = 2
    MaxFaults = 2
    MaxRestarts = 1
SPECIFICATION Spec
INVARIANTS TypeOK MemoryFollowsStore FreshWasCollected InvalidationHolds
PROPERTIES ShowsLatest
