SPECIFICATION FairSpec
CONSTANTS
    d1 = d1
    d2 = d2
    Jobs = {1, 2}
    Dates <- TwoDates
    MaxRetries = 1
    MaxVersion = 1
INVARIANTS
    TypeOK
    ReportMatchesFiles
    OneReporter
PROPERTY EveryJobEnds
CHECK_DEADLOCK FALSE
