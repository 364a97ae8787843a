SPECIFICATION FairSpec
CONSTANTS
    a1 = a1
    a2 = a2
    Null = Null
    MaxFrames = 1
    MaxStarts = 2
    Addresses = {a1, a2}
    CanFail = FALSE
    DrainSuffices = TRUE
    MayStop = TRUE
    StopsFirst = TRUE
PROPERTY StartRuns
