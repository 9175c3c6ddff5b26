SPECIFICATION FairSpec
CONSTANTS
    Char = {"x", "y"}
    Typed <- MCTyped
    LineMax = 3
    PacketMax = 2
    CommandDoes <- MCCommand
    BeaconDoes <- MCBeacon
    LoopDoes <- MCLoop
    MaxLines = 2
    MaxResets = 2
INVARIANTS CommandsAreLines NestingIsBounded AnsweredWhereAsked
PROPERTIES LinesAreRun
