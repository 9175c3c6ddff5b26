CONSTANTS
    Sentence <- McSentence
    NoiseByte <- McNoise
    Resumed <- McResumed
    RingSize = 3
    LineMax = 7
    FeLimit = 0
    Patience = 1
    MaxFaults = 1
    MaxCommands = 1
SPECIFICATION Spec
PROPERTY FixFromASentence
PROPERTY HeardOrOutOfRates
