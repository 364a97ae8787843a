SPECIFICATION Spec
CONSTANTS
    Root = 8
    Unit = 4
    Blocks = {b1, b2}
    NULL = NULL
    Widths = {0, 1, 3, 7, 62}
    Heights = {0, 1, 4, 5, 8}
    Strides = {0, 1, 3, 7, 8}
    Asserts = {TRUE, FALSE}
SYMMETRY Symmetry
INVARIANTS
    BlockOwned
    AllocatedFits
