SPECIFICATION Spec
CONSTANTS
    Alphabets = {{"8", ".", "e", "+", "-"}, {"i", "f", "8", "#"}, {"DQ", "BS", "NL", "a"},
                 {"'", "BS", "a", " "}, {"/", "NL", "=", "-", ">"}, {"<", "=", ">", "!"},
                 {"&", "|", ":", "*", "="}, {"(", ")", "{", "}"}, {"[", "]", ";", ","},
                 {"?", "@", "~", "^", "%"}}
    MaxLength = 4
    MaxPeeks = 1
    MaxAhead = 1
    SizeT = 256
INVARIANTS TokensSound PeekAgrees
PROPERTY ScansAll
