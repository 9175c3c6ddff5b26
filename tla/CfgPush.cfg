SPECIFICATION PushFairSpec
CHECK_DEADLOCK FALSE
CONSTANTS
    Setting <- MCSetting
    Default = "good"
    Hears <- MCHears
    Reaches <- MCReaches
    MaxTries = 2
    MaxPowerLosses = 1
    Pushed <- MCPushed
    CFGOTA_STEP_RETRY = 2
    LinkDepth = 2
    MaxJobs = 2
INVARIANTS VerdictIsTrue
 
