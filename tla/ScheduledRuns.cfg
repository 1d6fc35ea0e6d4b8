SPECIFICATION FairRunsSpec
CONSTANTS
    MaxRuns = 2
    MaxTimes = 2
    MaxLost = 1
    MaxTries = 3
    ListMax = 1
INVARIANT DispatchIsSound
PROPERTY RunsEndAndStay
CHECK_DEADLOCK FALSE
