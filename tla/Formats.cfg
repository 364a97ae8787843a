SPECIFICATION Spec
CONSTANTS
    Sizes <- SmallSizes
    Devices = {"planar", "semiplanar"}
    StrideUnit = 2
    Strides = {2, 4, 6, 8}
    MaxFrames = 3
INVARIANTS
    ConvertedData
    RotatedLuma
    CopiesFit
    BuffersAgree
