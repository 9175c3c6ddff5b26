SPECIFICATION FairSpec
CONSTANTS
    PACKET_BUFFER_SIZE = 3
    RxKind <- AllFrames
INVARIANTS TypeOK RxTakesHead RxHasRoom NeverMute RelayLeavesAtOnce
PROPERTIES Drains
