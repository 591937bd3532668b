SPECIFICATION Spec
CONSTANTS
    N = 2
    First = 2
    Batch <- MCBatch
    AsyncSets = {{}, {2}}
    Timed = {1}
    Modes = {TRUE, FALSE}
    MaxInterruptions = 2
INVARIANT InterruptionForwarded
CHECK_DEADLOCK FALSE
