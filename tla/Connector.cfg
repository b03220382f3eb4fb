SPECIFICATION Spec
CONSTANTS
    MaxStarts = 4
    MaxShutdowns = 4
INVARIANTS
    QuietWhenDown
    LeaksOnlyAfterFailure
    ShutdownDisconnects
PROPERTIES
    FeedClosedFirst
