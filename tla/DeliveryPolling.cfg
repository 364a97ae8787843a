SPECIFICATION FairSpec
CONSTANTS
    MaxFrames = 4
    QueueCap = 2
    CanFail = TRUE
    DrainSuffices = TRUE
    MayStop = TRUE
INVARIANTS
    TypeOK
    CopyNotOlder
    CopyForward
    BuffersExist
    StoppedIsQuiet
    StoppedCopy
PROPERTIES
    MailboxSpec
    FrameComesUnlessLost
    NewestTaken
