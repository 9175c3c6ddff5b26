SPECIFICATION Spec
CHECK_DEADLOCK FALSE
CONSTANTS
    Setting <- MCSetting
    Default = "good"
    Hears <- MCHears
    Reaches <- MCReaches
    MaxTries = 2
    MaxPowerLosses = 1
INVARIANTS TypeOK OneSession PingsBounded NeverStranded BackupIsGood OutcomeIsHeard
