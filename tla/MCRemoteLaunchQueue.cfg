SPECIFICATION MCSpec
CONSTANTS
    j1 = j1
    j2 = j2
    Jobs <- MCTwoJobs
    HoldJobs <- MCHoldJobs
    Interactive <- MCInteractive
    Capacity = 1
    MaxClock = 1
    MaxFaults = 1
    MaxCrashes = 1
INVARIANTS
    AtMostOneLaunch
    DispatchInOrder
    GivenUpIsSettled
PROPERTIES
    EveryLaunchEnds
CHECK_DEADLOCK FALSE
