SPECIFICATION RelaySpec
CONSTANTS
    Messages = {1, 2, 3}
    Polling = FALSE
    MaxStarts = 3
    MaxShutdowns = 2
    MaxFailures = 1
    MaxBreaks = 1
    InStarts = 2
    InFailures = 1
    MaxOutages = 2
INVARIANTS
    EndsOwnUnitOfWork
    PublishedInOrder
    PutInOrder
    RelayedInOrder
PROPERTIES
    ImplementsDelivery
CHECK_DEADLOCK FALSE
