SPECIFICATION Spec
CONSTANTS
    a1 = a1
    a2 = a2
    Null = Null
    MaxFrames = 3
    MaxStarts = 2
    Addresses = {a1, a2}
    CanFail = TRUE
    DrainSuffices = TRUE
    MayStop = TRUE
    StopsFirst = TRUE
SYMMETRY Symmetry
INVARIANTS
    BlockHasCamera
    CallbackHasBuffers
    StoppedCopy
PROPERTY MailboxSpec
