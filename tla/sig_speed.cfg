SPECIFICATION SigFairSpec
CONSTANTS
    NumSigs = 5
    Builds = {TRUE, FALSE}
    MaxStops = 2
INVARIANTS InStep
PROPERTY BothEnd
CHECK_DEADLOCK FALSE
