SPECIFICATION FairSpec
CONSTANTS
    c1 = c1
    c2 = c2
    Clients = {c1, c2}
    words <- MCWords
    Dict = {"a"}
    DictSizes = {2, 3}
    MapRecs = 3
    Backlog = 1
    MaxStarts = 2
    Faults = {"sigint_server", "kill_server", "sigint_child", "fork_error", "sigint_client", "lose"}
    MaxFaults = 1
INVARIANTS TypeOK OwnAnswer
PROPERTIES ChildrenEnd ClientsEnd
CHECK_DEADLOCK FALSE
