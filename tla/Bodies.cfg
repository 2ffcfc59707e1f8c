SPECIFICATION Computing
CONSTANTS
    Names = {x, y}
    Written = {"i32", "i64", "u32", "f32", "f64", "i8", "u8", "bool", "str", "void"}
    Called = {"time_ms", "sleep", "min_i32", "sqrt", "strlen", "strcat", "say_f32", "say_i64"}
    MaxValues = 2
    Shapes = {"converted", "mixed", "notNumbers", "floatRem", "oddCondition", "oddArguments", "voidVariable"}
    Variables = {x}
    ValueTypes = {"i32", "u32", "i64", "bool"}
    W32 = 3
    W64 = 5
    MaxLiteral = 4
INVARIANTS TypesAgree AcceptedIsSound ValuesAreSound IntegersExact SaysInts
