SPECIFICATION FairSpec
CONSTANTS
    MaxFrames = 3
    QueueCap = 1
    CanFail = FALSE
    DrainSuffices = TRUE
    MayStop = TRUE
PROPERTY FrameComes
