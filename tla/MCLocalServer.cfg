SPECIFICATION ServerSpec
CONSTANTS
    j1 = j1
    j2 = j2
    NoJob = NoJob
    Jobs <- MCJobs
    HoldJobs <- MCHoldJobs
    Interactive <- MCInteractive
    FaultyJobs = {}
    UserJobs = {j1}
    MaxRestarts = 1
INVARIANTS
    AliveIsRegistered
PROPERTIES
    StopIsAnswered
CHECK_DEADLOCK FALSE
