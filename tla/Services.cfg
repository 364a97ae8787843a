SPECIFICATION Spec
CONSTANTS
    Threads = {t1, t2}
    JavaThreads = {t2}
    Activities = {a1, a2}
    Locks = {l1, l2}
    None = None
    Sdks = {24, 31}
    Addresses <- Prefixes
    MaxHeld = 2
    LocalRefs = 2
SYMMETRY Symmetry
INVARIANTS
    TypeOK
    RefsOwned
    LostOnlyNested
    AbortOnlyKnown
    AddressPrivate
