----------------------------- MODULE Expressions -----------------------------
(***************************************************************************)
(* How src/parser/Parser.cpp groups the operators of an expression: the    *)
(* methods from assignment down to primary, one step per token taken or    *)
(* method returned from.  Parser.tla has every method over any tokens and  *)
(* no tree; here the tokens are those of expressions, and of the tree it   *)
(* is noted which tokens each operator took for its operands.              *)
(*                                                                         *)
(* A token is its own text; "a" is any literal or name.  The lexer gives   *)
(* the next token when it is asked for one.                                *)
(***************************************************************************)
EXTENDS Naturals, Sequences, FiniteSets

CONSTANTS
    Alphabets,      \* sets of tokens; a text is over one of them
    MaxTokens       \* tokens of a text, without its end; at least one

ShiftsLast == <<{"="}, {"||"}, {"&&"}, {"==", "!="}, {">", ">=", "<", "<="}, {"|"}, {"^"}, {"&"},
                {"+", "-"}, {"<<", ">>"}, {"*", "/", "%"}>>

\* The binary operators of the methods from assignment to multiplication.
Ladder == <<{"="}, {"||"}, {"&&"}, {"==", "!="}, {">", ">=", "<", "<="}, {"|"}, {"^"}, {"&"},
            {"<<", ">>"}, {"+", "-"}, {"*", "/", "%"}>>
Levels == DOMAIN Ladder
BinaryOps == UNION {Ladder[k] : k \in Levels}
UnaryOps == {"!", "-", "~"}

VARIABLES
    alphabet,   \* the one that the text is over
    text,       \* the tokens read; the last one is current_
    stack,      \* the methods that are active, innermost last
    mode,       \* what is parsed next: an "operand", the "call" after one, the
                \* "args" of a call; "value" after a method returned
    lo,         \* the first token of the value returned
    groups      \* <<lo, op, hi>> of each BinaryExpr and UnaryExpr made

vars == <<alphabet, text, stack, mode, lo, groups>>

\* The method of a level, with the first token of its expression and the operator
\* whose right operand it waits for; unary, a grouping and the arguments of a call
\* come after the levels.
UnaryLevel == Len(Ladder) + 1
Grouping == Len(Ladder) + 2
Arguments == Len(Ladder) + 3
Frame(method, first, op) == [method |-> method, first |-> first, op |-> op]

Here == Len(text)
current == text[Here]
Top == stack[Len(stack)]
Popped == SubSeq(stack, 1, Len(stack) - 1)

\* The methods from level k down to multiplication are called one by another
\* before any token is looked at.
Called(k, first) == [i \in 1..(Len(Ladder) + 1 - k) |-> Frame(k + i - 1, first, 0)]

Init ==
    /\ alphabet \in Alphabets /\ \E t \in alphabet : text = <<t>>
    /\ stack = Called(1, 1) /\ mode = "operand"
    /\ lo = 0 /\ groups = {}

\* advance
Advance ==
    \E t \in alphabet \cup {"end"} :
        /\ Here = MaxTokens => t = "end"
        /\ text' = Append(text, t)

Reject == mode' = "rejected" /\ UNCHANGED <<alphabet, text, stack, lo, groups>>

-----------------------------------------------------------------------------
unary ==
    /\ mode = "operand" /\ current \in UnaryOps
    /\ stack' = Append(stack, Frame(UnaryLevel, Here, Here))
    /\ Advance
    /\ UNCHANGED <<alphabet, mode, lo, groups>>

primary ==
    /\ mode = "operand"
    /\ \/ /\ current = "a"
          /\ lo' = Here /\ mode' = "call"
          /\ Advance
          /\ UNCHANGED <<alphabet, stack, groups>>
       \/ /\ current = "("
          /\ stack' = Append(stack, Frame(Grouping, Here, 0)) \o Called(1, Here + 1)
          /\ Advance
          /\ UNCHANGED <<alphabet, mode, lo, groups>>
       \/ current \notin {"a", "("} \cup UnaryOps /\ Reject

\* call: its loop, and its arguments.
call ==
    /\ mode = "call"
    /\ \/ /\ current = "("
          /\ stack' = Append(stack, Frame(Arguments, lo, 0)) /\ mode' = "args"
          /\ Advance
       \/ current # "(" /\ mode' = "value" /\ UNCHANGED <<text, stack>>
    /\ UNCHANGED <<alphabet, lo, groups>>

args ==
    /\ mode = "args"
    /\ \/ /\ current = ")"
          /\ lo' = Top.first /\ stack' = Popped /\ mode' = "call"
          /\ Advance
       \/ /\ current # ")"
          /\ stack' = stack \o Called(1, Here) /\ mode' = "operand"
          /\ UNCHANGED <<text, lo>>
    /\ UNCHANGED <<alphabet, groups>>

\* A value was returned to the method of a level: the expression of its operator
\* is made, then a further operator is looked for.
Made == groups \cup (IF Top.op = 0 THEN {} ELSE {<<Top.first, Top.op, Here - 1>>})

\* The right operand: of the next level, but of an assignment one of its own.
RightOperand(k) == Called(IF k = 1 THEN 1 ELSE k + 1, Here + 1)

\* assignment takes one operator, the others loop.
Takes(k) == current \in Ladder[k] /\ ~(k = 1 /\ Top.op # 0)

binary ==
    /\ mode = "value" /\ stack # <<>> /\ Top.method \in Levels
    /\ groups' = Made
    /\ \/ /\ Takes(Top.method)
          /\ stack' = Append(Popped, Frame(Top.method, Top.first, Here))
                          \o RightOperand(Top.method)
          /\ mode' = "operand"
          /\ Advance /\ UNCHANGED lo
       \/ /\ ~Takes(Top.method)
          /\ stack' = Popped /\ lo' = Top.first
          /\ UNCHANGED <<text, mode>>
    /\ UNCHANGED alphabet

\* unary returns its expression to the method that called it.
UnaryReturns ==
    /\ mode = "value" /\ stack # <<>> /\ Top.method = UnaryLevel
    /\ groups' = Made
    /\ stack' = Popped /\ lo' = Top.first
    /\ UNCHANGED <<alphabet, text, mode>>

\* consume of the closing bracket, or the next argument.
Close ==
    /\ mode = "value" /\ stack # <<>> /\ Top.method \in {Grouping, Arguments}
    /\ \/ /\ current = ")"
          /\ lo' = Top.first /\ stack' = Popped /\ mode' = "call"
          /\ Advance /\ UNCHANGED <<alphabet, groups>>
       \/ /\ current = "," /\ Top.method = Arguments
          /\ stack' = stack \o Called(1, Here + 1) /\ mode' = "operand"
          /\ Advance /\ UNCHANGED <<alphabet, lo, groups>>
       \/ ~(current = ")" \/ (current = "," /\ Top.method = Arguments)) /\ Reject

\* The expression ends where the statement goes on: at a token that is none of its.
Ended ==
    /\ mode = "value" /\ stack = <<>>
    /\ mode' = IF current = "end" THEN "accepted" ELSE "rejected"
    /\ UNCHANGED <<alphabet, text, stack, lo, groups>>

Stopped == mode \in {"accepted", "rejected"} /\ UNCHANGED vars

Parse == unary \/ primary \/ call \/ args \/ binary \/ UnaryReturns \/ Close \/ Ended

Next == Parse \/ Stopped

Spec == Init /\ [][Next]_vars

-----------------------------------------------------------------------------
TypeOK ==
    /\ alphabet \in Alphabets /\ text \in Seq(alphabet \cup {"end"})
    /\ mode \in {"operand", "call", "args", "value", "accepted", "rejected"}
    /\ stack \in Seq([method : Levels \cup {UnaryLevel, Grouping, Arguments},
                      first : 1..(MaxTokens + 1), op : 0..MaxTokens])
    /\ lo \in 0..MaxTokens
    /\ groups \subseteq (1..MaxTokens) \X (1..MaxTokens) \X (1..MaxTokens)

\* The operators of the text: one after an operand is binary.
Binary(p) == p > 1 /\ text[p] \in BinaryOps /\ text[p - 1] \in {"a", ")"}
Unary(p) == text[p] \in UnaryOps /\ ~Binary(p)
Operators == {p \in 1..(Here - 1) : Binary(p) \/ Unary(p)}

\* The brackets open before p, and two places of one expression within them.
Depth(p) == Cardinality({i \in 1..(p - 1) : text[i] = "("})
            - Cardinality({i \in 1..(p - 1) : text[i] = ")"})
Together(p, q) ==
    /\ Depth(p) = Depth(q)
    /\ \A i \in p..q : Depth(i) >= Depth(p) /\ (Depth(i) = Depth(p) => text[i] # ",")

\* Binary operators by how tightly they bind, the tightest first: the rows of
\* docs/LANGUAGE_SPEC.md:191-200, and those with the bitwise and the logical
\* operators apart, as languages of this kind have them.
DocumentedRows == <<{"*", "/", "%"}, {"+", "-"}, {"<<", ">>"}, {"&", "^", "|"},
                    {"<", "<=", ">", ">="}, {"==", "!="}, {"&&", "||"}, {"="}>>
FinerRows == <<{"*", "/", "%"}, {"+", "-"}, {"<<", ">>"}, {"&"}, {"^"}, {"|"},
               {"<", "<=", ">", ">="}, {"==", "!="}, {"&&"}, {"||"}, {"="}>>

\* An accepted text is grouped by such rows, each from the left, or from the right
\* if it is one of those, and a prefix operator ends before the next binary one.
GroupedBy(rows, fromRight) ==
    LET Row(p) == IF Unary(p) THEN 0 ELSE CHOOSE k \in DOMAIN rows : text[p] \in rows[k]
        \* Operator o is above r in the tree, r being to its right or to its left.
        Tighter(o, r) == Unary(r) \/ Row(r) < Row(o)
        OverRight(o, r) == Tighter(o, r) \/ (Row(r) = Row(o) /\ rows[Row(o)] \in fromRight)
        OverLeft(o, r) == Tighter(o, r) \/ (Row(r) = Row(o) /\ rows[Row(o)] \notin fromRight)
    IN  mode = "accepted" =>
            \A g \in groups : \A p \in Operators :
                LET o == g[2]
                    Between == {r \in Operators : Depth(r) = Depth(o)
                                                  /\ r \in (o + 1)..p \cup p..(o - 1)}
                IN  /\ o < p /\ Together(o, p)
                       => (p <= g[3] <=> \A r \in Between : OverRight(o, r))
                    /\ p < o /\ Together(p, o) /\ Binary(o)
                       => (g[1] <= p <=> \A r \in Between : OverLeft(o, r))

(* An accepted expression is grouped as the documentation has it where its rows  *)
(* tell two operators apart, and "&" before "^" before "|", "&&" before "||",    *)
(* where they do not: what is equally tight from the left and assignments from   *)
(* the right, in brackets and arguments of any depth (Parser.cpp:386-539).       *)
GroupedByPrecedence == GroupedBy(FinerRows, {{"="}})

(* What docs/LANGUAGE_SPEC.md:191-200 says: the operators of a row bind equally  *)
(* tightly.  It says of no row which way they group: any way will do that is the *)
(* same for a row in one text.                                                   *)
GroupedAsDocumented ==
    \E fromRight \in SUBSET {DocumentedRows[k] : k \in DOMAIN DocumentedRows} :
        GroupedBy(DocumentedRows, fromRight)

(* Every operator of an accepted text is in the tree, once, with operands that  *)
(* lie on both its sides, and no two groups overlap but by one in the other: a  *)
(* node is never lost when a loop goes on with it (Parser.cpp:404-530).         *)
TreeOfText ==
    mode = "accepted" =>
        /\ \A p \in Operators :
              \E g \in groups : g[2] = p /\ g[3] > p /\ (g[1] < p <=> Binary(p))
        /\ \A g, h \in groups :
              /\ g # h => g[2] # h[2]
              /\ \/ g[3] < h[1] \/ h[3] < g[1]
                 \/ (h[1] <= g[1] /\ g[3] <= h[3]) \/ (g[1] <= h[1] /\ h[3] <= g[3])

(* The tree of an accepted expression is the one of these precedences, with every *)
(* operator of the text.                                                         *)
TreesByPrecedence == TypeOK /\ GroupedByPrecedence /\ TreeOfText
=============================================================================
