SPECIFICATION FairSpec
CONSTANTS
    NSpeech = 4
    NStt = 2
    Patient = TRUE
INVARIANTS TypeOK NothingLeftBehind
PROPERTIES Answered
