SPECIFICATION MCSpec
CONSTANTS
    N = 2
    Metrics <- MCMetrics
    MaxUserActs = 2
    MaxRestarts = 1
INVARIANTS CompleteIsOver BestIsBest
PROPERTIES RecordedSweepEnds
CHECK_DEADLOCK FALSE
