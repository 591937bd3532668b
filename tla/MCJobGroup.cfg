SPECIFICATION FairSpec
CONSTANTS
    Workers = {"w1", "w2"}
    CancelOnError = TRUE
    Streamers = {"w1"}
    Stoppers = {"w2"}
INVARIANTS
    TypeOK
    OneOutcome
    AnsweredOnce
PROPERTIES
    WaiterReturns
    FailedJobsEnd
CHECK_DEADLOCK FALSE
