CONSTANTS
    usage = usage
    report = report
    Catalog <- MCCatalog
    Calendar = {report}
    Startup = {usage}
    Period = 2
    Grace = 1
    MaxEntries = 2
    MaxTime = 3
    MaxRuns = 2
    MaxUpsets = 1
SPECIFICATION Spec
 
PROPERTIES  ArmedForWork FreshSpared
CHECK_DEADLOCK FALSE
