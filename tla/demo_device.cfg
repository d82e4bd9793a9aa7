SPECIFICATION DevSpec
CONSTANTS
    p1 = p1
    p2 = p2
    Procs = {p1, p2}
    MsgLen = 2
    MaxOpens = 3
    MaxLoads = 2
INVARIANTS ExclusiveOpen CountIsUsers
CHECK_DEADLOCK FALSE
