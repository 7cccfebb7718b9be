CONSTANTS
    Proc = {p1, p2, p3}
    MaxAttempts = 2
    MaxOpens = 1
    MaxFaults = 0
SPECIFICATION Spec
INVARIANTS OneWriter
CHECK_DEADLOCK FALSE
