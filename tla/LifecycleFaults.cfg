SPECIFICATION Spec
CONSTANTS
    c1 = c1
    c2 = c2
    None = None
    Cams = {c1, c2}
    Indices = {0, 1}
    N_CAMERAS = 1
    CanFail = {"availability_callbacks", "manager", "id", "state_callbacks", "device", "reader", "session_callbacks", "session", "request", "setRepeatingRequest"}
    SharesIndex = FALSE
    SdkLevels = {23, 24}
    Elsewhere = {FALSE, TRUE}
SYMMETRY Symmetry
INVARIANTS
    TypeOK
    AllOrNothing
    OnlyKnownLeaks
    ReleaseOwned
    RegistryLive
    CleanupComplete
    CrashOnlyKnown
PROPERTY ReleaseOrder
