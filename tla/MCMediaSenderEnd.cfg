SPECIFICATION FairSpec
CONSTANTS
    Kinds = {"chunk"}
    MaxFrames = 1
    MaxInterruptions = 1
PROPERTY EndSurvives
CHECK_DEADLOCK FALSE
