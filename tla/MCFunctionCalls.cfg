SPECIFICATION FairSpec
CONSTANTS
    N = 2
    First = 2
    Batch <- MCBatch
    AsyncSets = {{}, {2}}
    Timed = {1}
    Modes = {TRUE, FALSE}
    MaxInterruptions = 2
INVARIANTS TypeOK OneRunPerGroup ContextTellsOutcome
PROPERTIES InterruptionCancelsAll TimedCallsAnswered
CHECK_DEADLOCK FALSE
