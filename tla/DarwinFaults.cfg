SPECIFICATION Spec
CONSTANTS
    c1 = c1
    c2 = c2
    None = None
    Cams = {c1, c2}
    Indices = {0, 1, 2}
    N_CAMERAS = 2
    CanFail = {"controller", "device", "authorization", "session", "input", "canAddInput", "queue", "output", "canAddOutput", "output_delegate"}
SYMMETRY Symmetry
INVARIANTS
    Balanced
    ReleaseObtained
    CrashOnlyKnown
