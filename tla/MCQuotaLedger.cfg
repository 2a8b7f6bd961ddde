SPECIFICATION Spec
CONSTANTS
    j1 = j1
    j2 = j2
    Jobs <- MCOneJob
    Minutes <- MCOneMinutes
    Total = 4
    MaxClock = 2
    MaxCrashes = 1
INVARIANTS
    CountedOnce
PROPERTIES
    ChargedOnce
    TrackedIsFreed
CHECK_DEADLOCK FALSE
