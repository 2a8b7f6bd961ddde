CONSTANTS
    p1 = p1  p2 = p2  j1 = j1  d1 = d1  d2 = d2  s1 = s1  s2 = s2
    Procs <- MCProcs
    Jobs <- MCJobs
    Dirs <- MCDirs
    Setups <- MCSetups
    NoProc = NoProc
    NoJob = NoJob
    NoDir = NoDir
    NoSetup = NoSetup
    MaxEnds = 2
    MaxLost = 1
    MaxFaults = 1
SPECIFICATION MCSpec
INVARIANTS AnnouncedOnce NothingIsLost ReadyIsInstalled
PROPERTIES EndIsAnnounced MigrationEnds 
CHECK_DEADLOCK FALSE
