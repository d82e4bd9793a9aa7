SPECIFICATION FairSpec
CONSTANTS
    c1 = c1
    c2 = c2
    Clients = {c1, c2}
    Sizes <- MCSizes
    QueueCap = 1
    MaxStarts = 2
    Faults = {"sigint", "kill_server", "kill_client", "fork_error", "read_error", "sigchld_client"}
    MaxFaults = 1
INVARIANTS ChunksOnce NameIsUsed
PROPERTIES AloneIsServed
CHECK_DEADLOCK FALSE
