CONSTANTS
    first = first
    second = second
    cli = cli
    Proc = {first}
    Desktop = {first}
    Prompts = FALSE
    MaxAttempts = 2
    MaxOpens = 1
    MaxFaults = 0
SPECIFICATION ResetSpec
PROPERTY RemovalSanctioned
CHECK_DEADLOCK FALSE
