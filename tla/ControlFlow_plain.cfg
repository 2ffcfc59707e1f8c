SPECIFICATION Spec
CONSTANTS
    MaxBlocks = 10
    MaxFuncs = 2
    MaxDepth = 4
    Shapes = {}
INVARIANTS PlainInv VerifierSilent InsertPointAtHome LiveMatchesCFG
PROPERTY SealedBlocksFrozen
