SPECIFICATION FairSpec
CONSTANTS
    c1 = c1
    c2 = c2
    Connectors = {c1}
    typeOf <- OneStreamSubscriber
    Durable = {c1}
    Polling = {}
    StanConfigured = TRUE
    MaxNatsOutages = 1
    MaxStanLosses = 1
    MaxMqFailures = 0
    MaxLateErrors = 0
    MaxBadPasses = 1
PROPERTIES
    Restarted
    StopCompletes
    ClosedNatsStopsBridge
