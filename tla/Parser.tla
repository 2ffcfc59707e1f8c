------------------------------- MODULE Parser -------------------------------
(***************************************************************************)
(* The recursive-descent parser (src/parser/Parser.cpp) over any stream of *)
(* tokens, its error recovery included.                                    *)
(*                                                                         *)
(* A parsing method is a program of instructions (below, one sequence per  *)
(* method) and `stack` is the C++ call stack of the methods in progress.   *)
(* The lexer is external to this module: the next token is any token, and  *)
(* after the end of the file, nothing else.  Of the tree that is built the *)
(* module keeps what matters to the phases that walk it: whether a method  *)
(* returned a node or a null pointer, and whether a null pointer became    *)
(* the child of a node.                                                    *)
(***************************************************************************)
EXTENDS Integers, Sequences

CONSTANT
    Files           \* what is parsed: files of up to `length` tokens of the kinds
                    \* `tokens`, with `patience` for 10, the errors after which the
                    \* parser gives up

\* Kinds of token, by what the parser does with them: "op" stands for the
\* operators that are only binary, "-" and "!" for those that are (also) unary,
\* "let" for let and const, "type" for the keywords of types, "+=" and "char"
\* for tokens that no method asks for.
AllTokens == {"import", "from", "func", "let", "own", "if", "else", "return", "while",
              "loopwhile", "for", "say", "trace", "lparen", "rparen", "lbrace", "rbrace",
              "semicolon", "comma", ":", "=",
              "->", "op", "-", "!", "ident", "literal", "type", "char", "+=", "unknown"}

ASSUME FilesAssumption ==
    \A f \in Files : f.tokens \subseteq AllTokens /\ f.length \in Nat \ {0} /\ f.patience \in Nat

VARIABLES
    file,       \* the bounds of the file that is parsed, one of Files
    current,    \* Parser::current_
    semicolon,  \* Parser::previous_ is a semicolon
    position,   \* how many tokens the lexer has returned
    errors,     \* diags_.getErrorCount(), counted up to one more than patience
    stack,      \* the methods in progress, innermost last
    incomplete, \* a node was built with a null child
    brackets    \* the brackets that are open in the text, until the first error

vars == <<file, current, semicolon, position, errors, stack, incomplete, brackets>>

-----------------------------------------------------------------------------
(* The parsing methods, as instructions *)

\* consume(t), its answer ignored; and with `if (!...) return nullptr`.
Expect(t)  == [do |-> "expect", token |-> t, method |-> "none"]
Require(t) == [do |-> "require", token |-> t, method |-> "none"]

\* A call for the child of a node; one whose null result is returned at once;
\* one whose result is the method's own.
Call(m) == [do |-> "call", token |-> "none", method |-> m]
Need(m) == [do |-> "need", token |-> "none", method |-> m]
Pass(m) == [do |-> "pass", token |-> "none", method |-> m]

\* if (match(t)) ..., while (match(t)) ..., if (!check(t)) ...
Optional(t, m) == [do |-> "optional", token |-> t, method |-> m]
Repeat(t, m)   == [do |-> "repeat", token |-> t, method |-> m]
Unless(t, m)   == [do |-> "unless", token |-> t, method |-> m]

\* A step that has an action of its own below.
Own(step) == [do |-> step, token |-> "none", method |-> "none"]

importDecl == <<Require("ident"), Require("from"), Require("ident"), Require("semicolon")>>
funcDecl == <<Require("ident"), Require("lparen"), Unless("rparen", "parameters"),
              Require("rparen"), Optional("->", "type"), Require("lbrace"), Call("block")>>
parameters == <<Call("parameter"), Repeat("comma", "parameter")>>
parameter == <<Expect("ident"), Expect(":"), Call("type")>>
varDecl == <<Require("ident"), Optional(":", "type"), Optional("=", "expression"),
             Require("semicolon")>>
exprStatement == <<Need("expression"), Require("semicolon")>>
ifStatement == <<Expect("lparen"), Call("expression"), Expect("rparen"), Call("statement"),
                 Optional("else", "statement")>>
returnStatement == <<Unless("semicolon", "expression"), Expect("semicolon")>>
whileStatement == <<Expect("lparen"), Call("expression"), Expect("rparen"), Call("statement")>>
forStatement == <<Expect("lparen"), Call("declaration"), Call("expression"), Expect("semicolon"),
                  Call("expression"), Expect("rparen"), Call("statement")>>
sayStatement == <<Expect("lparen"), Unless("rparen", "expressions"), Expect("rparen"),
                  Expect("semicolon")>>
traceStatement == <<Expect("lparen"), Call("expression"), Expect("rparen"), Expect("semicolon")>>
blockStatement == <<Own("block"), Own("blockItem"), Expect("rbrace")>>

\* The ladder from assignment to multiplication: an operand and, after each
\* operator that takes two, another.
expression == <<Pass("unary"), Repeat("binary", "unary")>>

\* unary, call and primary; primary after its '(' is `grouping`.
unary == <<Own("operand"), Repeat("lparen", "args")>>
prefix == <<Call("unary")>>
grouping == <<Pass("expression"), Expect("rparen")>>
expressions == <<Call("expression"), Repeat("comma", "expression")>>

ArgsUnclosed == <<Unless("rparen", "expressions")>>

\* The arguments of a call, after the '('.
args == <<Unless("rparen", "expressions"), Expect("rparen")>>

synchronize == <<Own("skip"), Own("scan")>>

Method ==
    [import |-> importDecl, func |-> funcDecl, parameters |-> parameters,
     parameter |-> parameter, var |-> varDecl, exprStatement |-> exprStatement,
     if |-> ifStatement, return |-> returnStatement, while |-> whileStatement,
     for |-> forStatement, say |-> sayStatement, trace |-> traceStatement,
     block |-> blockStatement, expression |-> expression, unary |-> unary,
     prefix |-> prefix, grouping |-> grouping, args |-> args,
     expressions |-> expressions, synchronize |-> synchronize,
     program |-> <<Own("program")>>, declaration |-> <<Own("declaration")>>,
     statement |-> <<Own("statement")>>, type |-> <<Own("type")>>]

Methods == DOMAIN Method

\* The method that a token starts in declaration, and in statement.
DeclarationStarts == [import |-> "import", func |-> "func", let |-> "var", own |-> "var"]
StatementStarts == [if |-> "if", return |-> "return", loopwhile |-> "while",
                    while |-> "while", for |-> "for", say |-> "say", trace |-> "trace"]

\* The tokens at which recovery stops.
Restarts == {"func", "import", "let", "if", "while", "for", "return"}

-----------------------------------------------------------------------------
(* Tokens, errors and calls *)

lexerState == <<file, current, semicolon, position>>
reports == <<errors, brackets>>

Capped(n) == IF n > file.patience THEN file.patience + 1 ELSE n

\* An error at the current token.
Report ==
    /\ errors' = Capped(errors + 1)
    /\ brackets' = <<>>

\* The brackets that are open once the current token is consumed; a closing one
\* that has no partner stays.
OpenAfter ==
    LET open == Len(brackets)
        partner == IF current = "rparen" THEN "lparen" ELSE "lbrace"
    IN IF current \in {"lparen", "lbrace"} THEN Append(brackets, current)
       ELSE IF current \notin {"rparen", "rbrace"} THEN brackets
       ELSE IF open > 0 /\ brackets[open] = partner THEN SubSeq(brackets, 1, open - 1)
       ELSE Append(brackets, current)

\* At the end of the file the lexer stays.
Ahead == IF current = "eof" THEN position ELSE position + 1

\* Parser::advance; the lexer's Unknown token is an error, and `reported` says
\* whether there is another one in the same step.
Advance(reported) ==
    \E next \in IF current = "eof" \/ position >= file.length THEN {"eof"}
                ELSE file.tokens \cup {"eof"} :
        /\ current' = next /\ UNCHANGED file
        /\ semicolon' = (current = "semicolon")
        /\ position' = Ahead
        /\ LET before == errors + (IF reported THEN 1 ELSE 0)
               after == before + (IF next = "unknown" THEN 1 ELSE 0)
           IN /\ errors' = Capped(after)
              /\ brackets' = IF after > 0 THEN <<>> ELSE OpenAfter

Stays == UNCHANGED lexerState /\ UNCHANGED reports

Fits(asked) == IF asked = "binary" THEN current \in {"op", "-", "="} ELSE current = asked

Frame == [method : Methods,
          pc     : 1..8,                    \* its next instruction
          node   : BOOLEAN,                 \* what it returns is not null
          last   : 0..(file.length + 1),    \* in a block, where lastToken is
          stuck  : 0..4]                    \* in a block, errorCount

Entered(m, at) ==
    [method |-> m, pc |-> 1, node |-> TRUE, last |-> IF m = "block" THEN at ELSE 0, stuck |-> 0]

Top == stack[Len(stack)]
Finished == Top.pc > Len(Method[Top.method])
Instruction == Method[Top.method][Top.pc]
At(step) == stack # <<>> /\ ~Finished /\ Instruction.do = step

Replaced(frame) == [stack EXCEPT ![Len(stack)] = frame]
Stepped == Replaced([Top EXCEPT !.pc = @ + 1])
Abandoned(frame) == [frame EXCEPT !.pc = Len(Method[frame.method]) + 1, !.node = FALSE]

\* A call returns to the instruction that makes it.
Calling(m) == Append(stack, Entered(m, position'))

-----------------------------------------------------------------------------
Init ==
    /\ file \in Files
    /\ current \in file.tokens \cup {"eof"}
    /\ semicolon = FALSE
    /\ position = 1
    /\ errors = IF current = "unknown" THEN 1 ELSE 0
    /\ brackets = <<>>
    /\ stack = <<[method |-> "program", pc |-> 1, node |-> TRUE, last |-> 0, stuck |-> 0]>>
    /\ incomplete = FALSE

\* consume
Consume ==
    /\ At("expect") \/ At("require")
    /\ Fits(Instruction.token)
    /\ Advance(FALSE)
    /\ stack' = Stepped
    /\ UNCHANGED incomplete

ConsumeFails ==
    /\ At("expect") \/ At("require")
    /\ ~Fits(Instruction.token)
    /\ Report
    /\ stack' = IF Instruction.do = "expect" THEN Stepped ELSE Replaced(Abandoned(Top))
    /\ UNCHANGED <<lexerState, incomplete>>

CallMethod ==
    /\ At("call") \/ At("need") \/ At("pass") \/ (At("unless") /\ ~Fits(Instruction.token))
    /\ Stays
    /\ stack' = Calling(Instruction.method)
    /\ UNCHANGED incomplete

\* match, and a call if it succeeds
Match ==
    /\ At("optional") \/ At("repeat")
    /\ Fits(Instruction.token)
    /\ Advance(FALSE)
    /\ stack' = Calling(Instruction.method)
    /\ UNCHANGED incomplete

NoMatch ==
    /\ \/ (At("optional") \/ At("repeat")) /\ ~Fits(Instruction.token)
       \/ At("unless") /\ Fits(Instruction.token)
    /\ Stays
    /\ stack' = Stepped
    /\ UNCHANGED incomplete

\* What a caller goes on with once a method has returned a node, or null.
Resumed(frame, do, node) ==
    CASE do \in {"pass", "operand"} -> [frame EXCEPT !.pc = @ + 1, !.node = node]
      [] do = "need" /\ ~node -> Abandoned(frame)
      [] do = "repeat" -> [frame EXCEPT !.node = TRUE]
      [] do \in {"program", "block"} -> frame       \* the head of its loop
      [] do = "blockItem" -> [frame EXCEPT !.pc = 1]
      [] OTHER -> [frame EXCEPT !.pc = @ + 1]

\* A null pointer that becomes the child of a node.
Hole(frame, do, node) ==
    \/ do \in {"call", "optional", "unless"} /\ ~node
    \/ do = "repeat" /\ (~node \/ ~frame.node)

Return ==
    /\ stack # <<>> /\ Finished /\ Len(stack) > 1
    /\ LET caller == stack[Len(stack) - 1]
           do == Method[caller.method][caller.pc].do
           below == [SubSeq(stack, 1, Len(stack) - 1) EXCEPT
                        ![Len(stack) - 1] = Resumed(caller, do, Top.node)]
       IN /\ stack' = IF do \in {"program", "blockItem"} /\ ~Top.node
                      THEN Append(below, Entered("synchronize", position)) ELSE below
          /\ incomplete' = (incomplete \/ Hole(caller, do, Top.node))
    /\ Stays

-----------------------------------------------------------------------------
(* Declarations and statements *)

\* Which method goes on is known by the keyword, if there is one.
StartDeclaration ==
    /\ At("declaration")
    /\ current \in DOMAIN DeclarationStarts
    /\ Advance(FALSE)
    /\ stack' = Replaced(Entered(DeclarationStarts[current], position'))
    /\ UNCHANGED incomplete

StartStatement ==
    /\ At("declaration") \/ At("statement")
    /\ current \in DOMAIN StatementStarts
    /\ Advance(FALSE)
    /\ stack' = Replaced(Entered(StatementStarts[current], position'))
    /\ UNCHANGED incomplete

StartBlock ==
    /\ At("declaration") \/ At("statement")
    /\ current = "lbrace"
    /\ Advance(FALSE)
    /\ stack' = Replaced(Entered("block", position'))
    /\ UNCHANGED incomplete

StartExpression ==
    /\ \/ At("declaration") /\ current \notin DOMAIN DeclarationStarts
       \/ At("statement")
    /\ current \notin DOMAIN StatementStarts \cup {"lbrace"}
    /\ Stays
    /\ stack' = Replaced(Entered("exprStatement", position'))
    /\ UNCHANGED incomplete

\* The head of the loop in blockStatement: if the token is still the one of the
\* iteration before, for the fourth time, it is skipped.
BlockLoop ==
    /\ At("block")
    /\ current \notin {"rbrace", "eof"}
    /\ LET count == IF Top.last = position THEN Top.stuck + 1 ELSE 0
       IN /\ IF count > 3 THEN Advance(TRUE) ELSE Stays
          /\ stack' = Replaced([Top EXCEPT !.pc = 2, !.last = position',
                                           !.stuck = IF count > 3 THEN 0 ELSE count])
    /\ UNCHANGED incomplete

BlockEnd ==
    /\ At("block")
    /\ current \in {"rbrace", "eof"}
    /\ Stays
    /\ stack' = Replaced([Top EXCEPT !.pc = 3])
    /\ UNCHANGED incomplete

TooMany == errors > file.patience

\* A declaration of the program or of a block, unless there are too many errors.
NextDeclaration ==
    /\ (At("program") /\ current # "eof") \/ At("blockItem")
    /\ ~TooMany
    /\ Stays
    /\ stack' = Calling("declaration")
    /\ UNCHANGED incomplete

GiveUp ==
    /\ (At("program") /\ current # "eof") \/ At("blockItem")
    /\ TooMany
    /\ Report
    /\ stack' = Stepped
    /\ UNCHANGED <<lexerState, incomplete>>

ProgramEnd ==
    /\ At("program")
    /\ current = "eof"
    /\ Stays
    /\ stack' = Stepped
    /\ UNCHANGED incomplete

\* parseProgram returns.
ProgramReturns ==
    /\ Len(stack) = 1 /\ Finished
    /\ Stays
    /\ stack' = <<>>
    /\ UNCHANGED incomplete

\* synchronize: a token is skipped at least, and more up to a place to restart.
Skip ==
    /\ At("skip")
    /\ Advance(FALSE)
    /\ stack' = Stepped
    /\ UNCHANGED incomplete

RestartInFile == semicolon \/ current \in Restarts

Restart == current = "eof" \/ semicolon \/ current \in Restarts

Scan ==
    /\ At("scan") /\ ~Restart
    /\ Advance(FALSE)
    /\ UNCHANGED <<stack, incomplete>>

Synchronized ==
    /\ At("scan") /\ Restart
    /\ Stays
    /\ stack' = Stepped
    /\ UNCHANGED incomplete

-----------------------------------------------------------------------------
(* Expressions and types *)

\* A literal or a name.
Operand ==
    /\ At("operand")
    /\ current \in {"literal", "ident"}
    /\ Advance(FALSE)
    /\ stack' = Stepped
    /\ UNCHANGED incomplete

Prefix ==
    /\ At("operand")
    /\ current \in {"-", "!"}
    /\ Advance(FALSE)
    /\ stack' = Replaced(Entered("prefix", position'))
    /\ UNCHANGED incomplete

Group ==
    /\ At("operand")
    /\ current = "lparen"
    /\ Advance(FALSE)
    /\ stack' = Calling("grouping")
    /\ UNCHANGED incomplete

SilentMiss ==
    /\ At("operand")
    /\ current \notin {"literal", "ident", "-", "!", "lparen"}
    /\ Stays
    /\ stack' = Replaced([Top EXCEPT !.pc = 2, !.node = FALSE])
    /\ UNCHANGED incomplete

\* primary finds no expression: an error, and a null pointer.
OperandMissing ==
    /\ At("operand")
    /\ current \notin {"literal", "ident", "-", "!", "lparen"}
    /\ Report
    /\ stack' = Replaced([Top EXCEPT !.pc = 2, !.node = FALSE])
    /\ UNCHANGED <<lexerState, incomplete>>

Type ==
    /\ At("type")
    /\ current \in {"type", "ident"}
    /\ Advance(FALSE)
    /\ stack' = Stepped
    /\ UNCHANGED incomplete

\* parseType returns a type all the same.
TypeMissing ==
    /\ At("type")
    /\ current \notin {"type", "ident"}
    /\ Report
    /\ stack' = Stepped
    /\ UNCHANGED <<lexerState, incomplete>>

Ended == stack = <<>> /\ UNCHANGED vars

Parse ==
    \/ Consume \/ ConsumeFails \/ CallMethod \/ Match \/ NoMatch \/ Return
    \/ StartDeclaration \/ StartStatement \/ StartBlock \/ StartExpression
    \/ BlockLoop \/ BlockEnd \/ NextDeclaration \/ GiveUp \/ ProgramEnd \/ ProgramReturns
    \/ Skip \/ Scan \/ Synchronized
    \/ Operand \/ Prefix \/ Group \/ OperandMissing \/ Type \/ TypeMissing

Next == Parse \/ Ended

Spec == Init /\ [][Next]_vars

\* The parser runs until it has ended.
FairSpec == Spec /\ WF_vars(Parse)

-----------------------------------------------------------------------------
(* What the parser promises *)

\* Type correctness.
TypeOK ==
    /\ file \in Files
    /\ current \in file.tokens \cup {"eof"}
    /\ semicolon \in BOOLEAN
    /\ position \in 1..(file.length + 1)
    /\ errors \in 0..(file.patience + 1)
    /\ stack \in Seq(Frame)
    /\ incomplete \in BOOLEAN
    /\ brackets \in Seq({"lparen", "rparen", "lbrace", "rbrace"})

\* The phases that walk the tree dereference its children unchecked
\* (SemanticAnalyzer.cpp:69-71, 207): a null child always comes with an error,
\* after which main stops (main.cpp:323).
NullIsReported == incomplete => errors > 0

\* A file that is accepted was read to its end, and its brackets match, however
\* statements and expressions nest.
AcceptedIsBalanced ==
    stack = <<>> /\ errors = 0 => current = "eof" /\ brackets = <<>>

\* No iteration of a block's loop leaves the token where it was, because each
\* failed declaration is followed by synchronize: the loop's own safety net,
\* "Parser stuck, skipping to next token" (Parser.cpp:235-247), is never needed.
NeverStuck == \A i \in 1..Len(stack) : stack[i].stuck <= 1

\* The methods, at every step: well typed, with no null child unreported and no
\* iteration without progress.
MethodsSound == TypeOK /\ NullIsReported /\ NeverStuck

\* The parser comes to an end on every file.
Terminates == <>(stack = <<>>)
=============================================================================
