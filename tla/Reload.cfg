SPECIFICATION Spec
CONSTANTS
    Files <- MCEdits
    Edits <- MCEdits
    MaxEdits = 0
    MaxSignals = 2
INVARIANTS
    OneBridgeRuns
CHECK_DEADLOCK FALSE
