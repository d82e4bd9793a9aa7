SPECIFICATION FairSpec
CONSTANTS
    Sessions <- MCSessions
    MaxCmds = 4
    Items = 2
    PipeCap = 1
    Faults = {"fork_error", "pipe_error", "stop"}
    MaxFaults = 2
INVARIANTS TypeOK Plumbing PromptAfterCommand Delivered
PROPERTIES PipelinesEnd
CHECK_DEADLOCK FALSE
