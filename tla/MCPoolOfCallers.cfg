SPECIFICATION FairSpec
CONSTANTS
    first = first
    second = second
    Calls <- MCCalls
    Inside <- MCCalls
    Workers = 2
    MaxThreads = 2
    MaxTiles = 2
    Budget = 5
    Estimates <- MCEstimates
PROPERTY
    WorkerReports
CHECK_DEADLOCK FALSE
