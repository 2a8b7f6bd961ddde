SPECIFICATION Spec
CONSTANTS
    j1 = j1
    j2 = j2
    Jobs <- MCTwoJobs
    Minutes <- MCMinutes
    Total = 4
    MaxClock = 1
    MaxCrashes = 0
PROPERTIES
    HoldWithinQuota
CHECK_DEADLOCK FALSE
