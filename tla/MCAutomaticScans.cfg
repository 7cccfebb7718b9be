CONSTANTS
    off = off
    daily = daily
    hourly = hourly
    Schedule = {off, daily, hourly}
    Enabled = {daily, hourly}
    Hourly = {hourly}
    Period = 2
    MaxTime = 3
    MaxInterruptions = 1
    MaxSaves = 1
    MaxFaults = 1
SPECIFICATION FairSpec
INVARIANTS SingleTimer Watched
PROPERTIES NothingDropped DuePassStarts
CHECK_DEADLOCK FALSE
