SPECIFICATION Spec
CONSTANTS
    Root = 16
    Blocks = {b1, b2, b3, b4, b5}
    NULL = NULL
    Requests <- MCRequests
    Lists <- MCLists
    Beyond <- MCBeyond
    Default <- MCDefault
    Grain = 3
    FltMax = 20000
    Layouts = {"YUV420SP", "YUV420P"}
    Strides = {8, 12, 16}
    StrideUnit = 8
    Asserts = {TRUE, FALSE}
SYMMETRY Symmetry
INVARIANTS
    MetadataPositive
