SPECIFICATION Spec
CONSTANTS
    j1 = j1
    j2 = j2
    j3 = j3
    NoJob = NoJob
    Jobs <- MCJobs
    HoldJobs <- MCHoldJobs
    Interactive <- MCInteractive
    FaultyJobs <- MCFaultyJobs
    UserJobs <- MCUserJobs
    MaxRestarts = 1
INVARIANTS
    OneLauncher
    FailedIsSettled
PROPERTIES
    Refinement
CHECK_DEADLOCK FALSE
