SPECIFICATION RunnerFairSpec
CONSTANTS
    a = a
    late = late
    child = child
    NoWorker = NoWorker
    Worker = {a, late, child}
    Initial = {a}
    Parent <- MCParent
    AutoEnd = TRUE
INVARIANTS
    RunnerTypeOK
    NoWorkerForgotten
PROPERTY
    RunReturns
CHECK_DEADLOCK FALSE
