CONSTANTS
    usage = usage
    sessions = sessions
    Task = {usage}
    HeavyTask = {usage}
    StartupTask = {usage}
    RequiredTask = {usage}
    Trigger = {"manual", "schedule", "startup"}
    Rank <- MCRank
    MaxAttempts = 1
    MaxQueue = 1
    MaxRun = 2
    MaxLifecycle = 3
    MaxFaults = 0
    Client <- MCClient
    Limit = 1
SPECIFICATION Spec
INVARIANT TimerCurrent
PROPERTIES BarrierHonest
CHECK_DEADLOCK FALSE
