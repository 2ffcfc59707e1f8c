SPECIFICATION Spec
CONSTANTS
    Names = {x}
    Written = {"i32", "i64", "f64"}
    Called = {}
    MaxValues = 2
    Shapes = {"inferred"}
INVARIANTS InferredFits
