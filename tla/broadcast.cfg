SPECIFICATION RingFairSpec
CONSTANTS
    MaxMessages = 3
    MaxConsumers = 3
    MaxSlots = 2
    ForkFailures = 1
INVARIANTS NothingCountedTwice NoEarlyLeave NeverUnderstated
PROPERTIES EverybodyEnds
CHECK_DEADLOCK FALSE
