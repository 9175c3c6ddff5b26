SPECIFICATION Spec
CONSTANTS
    EVENT_LOG_REC_COUNT = 2
    Address = {20, 255}
    Derived = 77
    OwnPrint = 5
    OtherPrint = 6
    Interval = {30}
    Check = {4}
    MaxLives = 4
INVARIANTS LogIsTrue
PROPERTIES SettingsAreKept
CONSTRAINT SideBySide
