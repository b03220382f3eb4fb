SPECIFICATION Spec
CONSTANTS
    Messages = {1, 2}
    Polling = TRUE
    MaxStarts = 2
    MaxShutdowns = 1
    MaxFailures = 1
    MaxBreaks = 0
INVARIANTS
    NoMessageLost
CHECK_DEADLOCK FALSE
