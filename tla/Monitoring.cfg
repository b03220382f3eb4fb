SPECIFICATION Spec
CONSTANTS
    MaxBins = 3
    Times = {0, 1, 4, 9}
    MaxRequests = 5
    MaxFailures = 1
    Requests = {r1}
    MaxHTTP = 1
INVARIANTS
    BinsInOrder
    MeanIsExact
    QuantileIsExact
    ReportConsistent
PROPERTIES
    RequestsEnd
CHECK_DEADLOCK FALSE
