SPECIFICATION FairSpec
CHECK_DEADLOCK FALSE
CONSTANTS
    Pusher = {"p"}
    Image <- MCImage
    Size <- MCSize
    MaxSize = 3
    MaxTries = 2
    LinkDepth = 2
    MaxJobs = 3
    MaxPowerLosses = 2
PROPERTIES LonePushesAreTrue ImplementsUpdate StagedIsInstalled
