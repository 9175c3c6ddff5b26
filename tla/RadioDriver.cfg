SPECIFICATION FairSpec
CONSTANTS
    Param = {"SF", "POWER"}
    Value = {"low", "high"}
    Stored = "low"
    AirTicks = 2
    WatchdogTicks = 5
    SendTicks = 6
    Beacons = TRUE
    BeaconTicks = 3
INVARIANTS ListensAsReported HealthyIsNotBitten
PROPERTIES DeafNodeRestarts
