CONSTANTS
    usage = usage
    sessions = sessions
    insight = insight
    Task = {usage, sessions, insight}
    HeavyTask = {usage, sessions}
    Trigger = {"manual", "startup"}
    Rank <- MCRank
    MaxAttempts = 1
    MaxQueue = 1
    MaxRun = 2
    MaxLifecycle = 2
    MaxFaults = 1
    Client <- MCClient
    Limit = 1
SPECIFICATION RuntimeSpec
INVARIANTS TypeOK SingleFlight HeavyBudget PermitsAccounted QueueDrained RetryBounded
PROPERTIES StaleRunsStayOut RowsFinal
CHECK_DEADLOCK FALSE
