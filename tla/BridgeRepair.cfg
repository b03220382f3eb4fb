SPECIFICATION FairSpec
CONSTANTS
    c1 = c1
    c2 = c2
    Connectors = {c1}
    typeOf <- OneListener
    Durable = {}
    Polling = {c1}
    StanConfigured = TRUE
    MaxNatsOutages = 0
    MaxStanLosses = 1
    MaxMqFailures = 1
    MaxLateErrors = 1
    MaxBadPasses = 1
INVARIANTS
    StreamingRetryPending
PROPERTIES
    BrokenReaderRepaired
