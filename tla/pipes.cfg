CONSTANTS
    MaxStreams = 2
    Items = 3
    BlockSizes = {2, 3}
    PipeBuf = 2
    PipeCap = 2
    StdioBuf = 2
    Faults = {"fork_error", "read_error", "kill_child", "eintr"}
    MaxFaults = 1
SPECIFICATION FairSpec
INVARIANTS TypeOK BlockByBlock StreamsCarry PcloseWaits
PROPERTIES EveryoneEnds
CHECK_DEADLOCK FALSE
