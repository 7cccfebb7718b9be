CONSTANTS
    usage = usage
    sessions = sessions
    Task = {usage, sessions}
    HeavyTask = {usage, sessions}
    StartupTask = {usage}
    RequiredTask = {usage}
    Trigger = {"manual", "schedule", "startup"}
    Rank <- MCRank
    MaxAttempts = 0
    MaxQueue = 1
    MaxRun = 2
    MaxLifecycle = 2
    MaxFaults = 0
    Client <- MCClient
    Limit = 1
SPECIFICATION FairSpec
PROPERTIES StartSettles StopResolves WaitersServed
CHECK_DEADLOCK FALSE
