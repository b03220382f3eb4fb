SPECIFICATION Spec
CONSTANTS
    Files <- MCFiles
    Edits <- MCEdits
    MaxEdits = 1
    MaxSignals = 3
INVARIANTS
    LoadedAsWritten
PROPERTIES
    EditTakesEffect
    InterruptEnds
CHECK_DEADLOCK FALSE
