SPECIFICATION Spec
CONSTANTS
    Names = {x, sqrt, printf}
    LibraryNames = {sqrt}
    HiddenNames = {printf}
    MaxDecls = 4
    MaxScopes = 4
    Shapes = {"blockShadow"}
INVARIANTS ReadsInnermost
