CONSTANTS
    first = first
    second = second
    cli = cli
    Proc = {first, second, cli}
    Desktop = {first, second}
    Prompts = TRUE
    MaxAttempts = 2
    MaxOpens = 1
    MaxFaults = 1
SPECIFICATION ResetFairSpec
INVARIANTS WriterHasLock MarkerMeansReady
PROPERTIES LiveLockKept StaleReclaimed RemovalSanctioned ResetSparesWriters
CHECK_DEADLOCK FALSE
