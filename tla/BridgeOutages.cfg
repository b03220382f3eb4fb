SPECIFICATION Spec
CONSTANTS
    c1 = c1
    c2 = c2
    Connectors = {c1, c2}
    typeOf <- ListenerAndStreamSubscriber
    Durable = {}
    Polling = {}
    StanConfigured = TRUE
    MaxNatsOutages = 1
    MaxStanLosses = 2
    MaxMqFailures = 0
    MaxLateErrors = 0
    MaxBadPasses = 1
INVARIANTS
    NoneForgotten
    NeverStartedTwice
    NoLostReconnect
    NilStreamingNoticed
PROPERTIES
    LiveStreamingKept
