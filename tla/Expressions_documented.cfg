SPECIFICATION Spec
CONSTANTS
    Alphabets = {{"a", "&", "|"}, {"a", "&&", "||"}}
    MaxTokens = 8
INVARIANT GroupedAsDocumented
