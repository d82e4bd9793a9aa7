SPECIFICATION SeqnumFairSpec
CONSTANTS
    c1 = c1
    c2 = c2
    c3 = c3
    Clients = {c1, c2, c3}
    DosClients = {c3}
    Lengths = {1, 2}
    Modulus = 4
    MaxKills = 1
    MaxCrashes = 1
INVARIANTS RangesDisjoint
PROPERTIES ClientServed
CHECK_DEADLOCK FALSE
