SPECIFICATION FairSpec
CONSTANTS
    N = 3
    Positions <- MCPositions
    MaxStarts = 3
    MaxFailures = 1
    MaxOutages = 2
INVARIANTS
    NoneSkipped
PROPERTIES
    ImplementsDelivery
    EventuallyPlaced
CHECK_DEADLOCK FALSE
