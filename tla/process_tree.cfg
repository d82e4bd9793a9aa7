SPECIFICATION Spec
CONSTANTS
    superuser = superuser
    alice = alice
    PidMax = 4
    MyPid = 4
    UserOf <- MCUserOf
    Root = superuser
    LongNames = {alice}
    NUMUN = 1
    Matching = {2, 4}
    Options <- MCOptions
    Settings <- MCSettings
    MaxEvents = 2
INVARIANTS ParentsOlder EndsWell RowsAreBranches OutputIsTrue
CHECK_DEADLOCK FALSE
