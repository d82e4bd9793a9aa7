SPECIFICATION FairSpec
CONSTANTS
    c1 = c1
    c2 = c2
    Clients = {c1, c2}
    Files <- MCFiles
    QueueCap = 1
    ServerCap = 1
    MaxStarts = 2
    Faults = {"sigint", "kill_server", "kill_client", "fork_error", "read_error"}
    MaxFaults = 1
INVARIANTS AnswerIsPrefix Accounted
PROPERTIES ClientsFinish ZombiesReaped
CHECK_DEADLOCK FALSE
