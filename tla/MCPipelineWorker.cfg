SPECIFICATION FairSpec
CONSTANTS
    Requests = {"data", "end", "stop", "cancel"}
    MaxRequests = 3
    MaxOutside = 2
    MayLose = {"start", "cancel"}
    HasIdleTimeout = TRUE
INVARIANTS
    TypeOK
    ReturnedClean
    ReportedOnce
PROPERTIES
    RequestsFinish
CHECK_DEADLOCK FALSE
