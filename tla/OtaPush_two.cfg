SPECIFICATION Spec
CHECK_DEADLOCK FALSE
CONSTANTS
    Pusher = {"p", "q"}
    Image <- MCFitting
    Size <- MCFitSize
    MaxSize = 3
    MaxTries = 1
    LinkDepth = 1
    MaxJobs = 2
    MaxPowerLosses = 1
INVARIANTS TypeOK GoldenCopy RunsWholeImage BrickedByThese
