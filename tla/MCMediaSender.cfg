SPECIFICATION FairSpec
CONSTANTS
    Kinds = {"chunk", "stopped", "message", "keep", "sync", "timed"}
    MaxFrames = 3
    MaxInterruptions = 2
INVARIANTS TypeOK InterruptionClears
PROPERTIES SpokenInTurn EndLast TurnsEnd
CHECK_DEADLOCK FALSE
