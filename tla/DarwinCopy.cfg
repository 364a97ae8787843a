SPECIFICATION Spec
CONSTANTS
    a1 = a1
    a2 = a2
    Null = Null
    MaxFrames = 2
    MaxStarts = 1
    Addresses = {a1, a2}
    CanFail = FALSE
    DrainSuffices = TRUE
    MayStop = FALSE
    StopsFirst = TRUE
INVARIANT CopyLive
