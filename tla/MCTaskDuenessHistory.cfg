CONSTANTS
    usage = usage
    report = report
    Catalog <- MCCatalog
    Calendar = {report}
    Startup = {usage}
    Period = 2
    Grace = 1
    MaxEntries = 3
    MaxTime = 4
    MaxRuns = 2
    MaxUpsets = 1
SPECIFICATION Spec
INVARIANT FreshnessKept
CHECK_DEADLOCK FALSE
