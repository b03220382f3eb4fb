SPECIFICATION Spec
CONSTANTS
    c1 = c1
    c2 = c2
    Connectors = {c1}
    typeOf <- OneSubscriber
    Durable = {}
    Polling = {}
    StanConfigured = FALSE
    MaxNatsOutages = 1
    MaxStanLosses = 0
    MaxMqFailures = 0
    MaxLateErrors = 0
    MaxBadPasses = 1
INVARIANTS
    SingleReconnectTimer
