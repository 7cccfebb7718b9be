CONSTANTS
    Scan = {s1, s2}
    Targets = 2
    Workers = 2
    MaxClears = 1
    MaxFaults = 1
SPECIFICATION ScannerFairSpec
INVARIANTS ClearedStaysGone CancelSticks
PROPERTIES RecordsAreBacked ScanEnds ClearResolves
CHECK_DEADLOCK FALSE
