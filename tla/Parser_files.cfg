SPECIFICATION Parsing
CONSTANTS
    Files <- AnyFiles
    Alphabets = {{"a", "=", "||", "=="}, {"a", "=", "&&", "<"}, {"a", "!=", ">", "|"}, {"a", "<=", "^", "<<"},
                 {"a", "&", ">>", "+"}, {"a", ">>", "-", "*"}, {"a", "+", "/", "%"}, {"a", ">=", "-", "!"},
                 {"a", "*", "~", "="}, {"a", "(", ")", ",", "+", "*"}, {"a", "(", ")", ",", "=", "-"},
                 {"a", "|", "^", "&"}, {"a", "||", "&&", "="}}
    MaxTokens = 8
INVARIANTS MethodsSound AcceptedIsBalanced TreesByPrecedence
PROPERTY Terminates
