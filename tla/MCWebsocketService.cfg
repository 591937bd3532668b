SPECIFICATION FairSpec
CONSTANTS
    MaxSockets = 3
    MaxRetries = 2
    MaxQuick = 2
INVARIANTS TypeOK OneReconnects CancelSticks
PROPERTY TasksReturn
CHECK_DEADLOCK FALSE
