SPECIFICATION FairSpec
CONSTANTS
    s1 = s1
    i1 = i1
    c1 = c1
    y1 = y1
    d1 = d1
    u1 = u1
    NoFrame = NoFrame
    Frame = {s1, i1, d1, u1}
    Kind <- MCKind
    MayPause = TRUE
    MayBroadcast = FALSE
PROPERTY
    EveryFrameSettles
    Delivers
