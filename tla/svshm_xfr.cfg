SPECIFICATION FairSpec
CONSTANTS
    r1 = r1
    r2 = r2
    Readers = {r1, r2}
    MaxBlocks = 2
    MaxSessions = 2
    Faults = {"read_error", "write_error"}
    MaxFaults = 1
    Wrap = 3
PROPERTIES ImplementsStream TransferEnds
CHECK_DEADLOCK FALSE
