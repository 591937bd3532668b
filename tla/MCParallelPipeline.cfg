SPECIFICATION FairSpec
CONSTANTS
    Branches = {"b1", "b2", "b3"}
    Data = {"d1", "d2"}
    Upstream = {"d2"}
    MayLose = {"end"}
INVARIANTS
    TypeOK
    LifecycleWhole
    InOrderOnce
PROPERTIES
    LifecycleEncloses
    BarrierLifts
CHECK_DEADLOCK FALSE
