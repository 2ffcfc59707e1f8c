------------------------------ MODULE MCParser ------------------------------
(* The parser, twice: its methods over files of any tokens, with errors and   *)
(* the recovery from them, and the trees that it makes of expressions.  The    *)
(* two have nothing in common but the source: a behaviour is one of either.   *)
EXTENDS Parser

CONSTANTS Alphabets, MaxTokens      \* those of Expressions

VARIABLES alphabet, text, levels, mode, lo, groups
E == INSTANCE Expressions WITH stack <- levels

tree == <<alphabet, text, levels, mode, lo, groups>>

\* Nothing is parsed, by the methods or as an expression.
NoFile ==
    /\ file \in {CHOOSE f \in Files : TRUE} /\ current = "eof" /\ semicolon = FALSE
    /\ position = 1 /\ errors = 0 /\ stack = <<>> /\ incomplete = FALSE /\ brackets = <<>>
NoText ==
    /\ alphabet \in {CHOOSE a \in Alphabets : TRUE} /\ text = <<"end">> /\ levels = <<>>
    /\ mode = "rejected" /\ lo = 0 /\ groups = {}

Any == (Init /\ NoText) \/ (E!Init /\ NoFile)
Step == (Parse /\ UNCHANGED tree) \/ (E!Parse /\ UNCHANGED vars)
AllEnded == stack = <<>> /\ mode \in {"accepted", "rejected"} /\ UNCHANGED <<vars, tree>>

Parsing == Any /\ [][Step \/ AllEnded]_<<vars, tree>> /\ WF_vars(Parse /\ UNCHANGED tree)

AnyFiles ==
    {[tokens |-> AllTokens \ {"char", "+="}, length |-> 4, patience |-> 2],
     [tokens |-> {"func", "if", "lparen", "rparen", "lbrace", "rbrace", "semicolon", "ident"},
      length |-> 8, patience |-> 1]}

(* That of Expressions, where it is explained.                                *)
TreesByPrecedence == E!TreesByPrecedence
=============================================================================
