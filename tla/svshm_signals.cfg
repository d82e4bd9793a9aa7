SPECIFICATION Spec
CONSTANTS
    r1 = r1
    r2 = r2
    Readers = {r1, r2}
    MaxBlocks = 2
    MaxSessions = 2
    Faults = {"writer_sigint", "reader_sigint", "read_error", "write_error"}
    MaxFaults = 2
    Wrap = 2
SYMMETRY ReaderSymmetry
INVARIANTS TurnsExclude DeliveredInOrder CleanUpIsComplete
CHECK_DEADLOCK FALSE
