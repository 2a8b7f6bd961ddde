SPECIFICATION MCSpec
CONSTANTS
    l1 = l1  l2 = l2  a1 = a1  a2 = a2  x = x  y = y  r1 = r1  r2 = r2
    Launches <- MCLaunches
    Kinds <- CloudKinds
    Stoppable <- MCOne
    Attempts = 2
    MaxFaults = 2
    MaxCuts = 1
    Tasks <- MCTasks  Added = {"new"}  Titles <- MCTitles  TaskCalls <- MCCalls  ZipIndexes <- MCZips
    NoIndex = NoIndex  NoId = NoId  NoDir = NoDir  NoSource = NoSource
    MaxTaskCalls = 3
INVARIANTS
    OneMachine
    EndsItself
    FailuresAreForgotten
    StopIsFinal
    AnswersAsPolled
    TasksAreWhole
    EntriesCanBeImported
SYMMETRY MCSymmetry
CHECK_DEADLOCK FALSE
