SPECIFICATION Spec
CONSTANTS
    MaxBlocks = 7
    MaxFuncs = 2
    MaxDepth = 4
    Shapes = {"afterReturn", "topLevel", "nestedFunc", "voidCond"}
INVARIANT AcceptedIsWhole
