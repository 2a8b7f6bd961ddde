SPECIFICATION BreakerSpec
CONSTANTS
    j1 = j1
    j2 = j2
    j3 = j3
    p1 = p1
    p2 = p2
    Providers <- MCProviders
    FailureLimit = 3
    BackoffCycles = 3
    PolledJobs <- MCJobs
    Provider <- MCShared
PROPERTIES
    QueriedAgain
