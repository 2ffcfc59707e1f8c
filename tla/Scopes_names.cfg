SPECIFICATION Spec
CONSTANTS
    Names = {x, sqrt}
    LibraryNames = {sqrt}
    HiddenNames = {}
    MaxDecls = 4
    MaxScopes = 4
    Shapes = {"blockShadow", "globalAssign", "lateGlobal", "funcValue"}
INVARIANTS UsesAgree NamesAgree NoForeignLocal
