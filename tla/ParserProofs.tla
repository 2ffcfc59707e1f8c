---------------------------- MODULE ParserProofs ----------------------------
(***************************************************************************)
(* For any files, tokens and patience: the parser's methods are sound at   *)
(* every step, and the brackets of a file that is accepted match.          *)
(***************************************************************************)
EXTENDS Parser, SequenceTheorems, TLAPS

-----------------------------------------------------------------------------
(* The methods' instructions: what the proofs need of them, read off once *)

\* The bracket that a method has consumed and not yet closed at an instruction;
\* that of a function's body is the function's own only until the block is called.
Bracket(m, pc, top) ==
    IF \/ (m \in {"if", "while", "say", "trace"} /\ pc \in {2, 3})
       \/ (m = "func" /\ pc \in {3, 4})
       \/ (m = "for" /\ pc \in {2, 3, 4, 5, 6})
       \/ (m \in {"args", "grouping"} /\ pc \in {1, 2})
    THEN "lparen"
    ELSE IF (m = "block" /\ pc \in {1, 2, 3}) \/ (m = "func" /\ pc = 7 /\ top)
    THEN "lbrace" ELSE "none"

\* Instructions that call the method they name, those after which the method waits for
\* another, and the rest.
Calls == {"call", "need", "pass", "unless", "optional", "repeat"}
Waits == Calls \cup {"program", "block", "blockItem", "operand"}
Steps == {"expect", "require", "declaration", "statement", "skip", "scan", "type"}

\* What consuming a token does to a bracket.
Moves(token, before, after) ==
    IF token \in {"lparen", "lbrace"} THEN before = "none" /\ after = token
    ELSE IF token = "rparen" THEN before = "lparen" /\ after = "none"
    ELSE IF token = "rbrace" THEN before = "lbrace" /\ after = "none"
    ELSE after = before

\* The instruction i of the method m at p: whom it may call, what it does to the bracket
\* that the method holds, and which method it is of.
Sound(m, p, i) ==
    /\ i.do \in Waits \cup Steps
    /\ i.do \in Calls =>
          \/ i.method \in Methods \ {"program", "synchronize", "block", "args", "grouping"}
          \/ i.method = "block" /\ i.do = "call" /\ m = "func" /\ p = 7
          \/ i.method = "args" /\ i.do = "repeat" /\ i.token = "lparen" /\ m = "unary"
    /\ (m = "func" /\ p = 7) => (i.do = "call" /\ i.method = "block")
    /\ i.do \in {"optional", "repeat"} =>
          (i.token \notin {"lbrace", "rbrace", "rparen"}
          /\ (i.token = "lparen" <=> i.method = "args"))
    /\ i.do \in {"expect", "require"}
       => Moves(i.token, Bracket(m, p, TRUE), Bracket(m, p + 1, TRUE))
    /\ i.do \in {"call", "need", "pass", "unless", "optional", "operand"} =>
             Bracket(m, p + 1, TRUE) = Bracket(m, p, FALSE)
    /\ i.do \in {"unless", "optional", "repeat"} => Bracket(m, p + 1, TRUE) = Bracket(m, p, TRUE)
    /\ (i.do = "block") = (m = "block" /\ p = 1)
    /\ (i.do = "blockItem") = (m = "block" /\ p = 2)
    /\ (i.do = "program") = (m = "program")
    /\ (i.do = "declaration") = (m = "declaration")
    /\ (i.do = "statement") = (m = "statement")
    /\ (i.do = "operand") = (m = "unary" /\ p = 1)
    /\ (i.do = "type") = (m = "type")
    /\ (i.do = "skip") = (m = "synchronize" /\ p = 1)
    /\ (i.do = "scan") = (m = "synchronize" /\ p = 2)
    /\ (i.do = "need") = (m = "exprStatement" /\ p = 1)
    /\ (m = "exprStatement" /\ p = 2) => (i.do = "require" /\ i.token = "semicolon")
    /\ (m = "block" /\ p = 3) => (i.do = "expect" /\ i.token = "rbrace")

\* A method that is sound at each instruction, and ends holding no bracket.
Tabled(m) ==
    /\ Len(Method[m]) \in 1..7
    /\ m \in {"exprStatement", "synchronize", "unary"} => Len(Method[m]) = 2
    /\ m = "block" => Len(Method[m]) = 3
    /\ m \in {"program", "declaration", "statement"} => Len(Method[m]) = 1
    /\ \A p \in 1..Len(Method[m]) : Sound(m, p, Method[m][p])
    /\ Bracket(m, Len(Method[m]) + 1, TRUE) = "none"

LEMMA Names ==
    Methods =
        {"import", "func", "parameters", "parameter", "var", "exprStatement", "if",
         "return", "while", "for", "say", "trace", "block", "expression", "unary",
         "prefix", "grouping", "args", "expressions", "synchronize", "program",
         "declaration", "statement", "type"}
BY DEF Methods, Method

LEMMA Programs ==
    /\ Method["import"] = importDecl
    /\ Method["func"] = funcDecl
    /\ Method["parameters"] = parameters
    /\ Method["parameter"] = parameter
    /\ Method["var"] = varDecl
    /\ Method["exprStatement"] = exprStatement
    /\ Method["if"] = ifStatement
    /\ Method["return"] = returnStatement
    /\ Method["while"] = whileStatement
    /\ Method["for"] = forStatement
    /\ Method["say"] = sayStatement
    /\ Method["trace"] = traceStatement
    /\ Method["block"] = blockStatement
    /\ Method["expression"] = expression
    /\ Method["unary"] = unary
    /\ Method["prefix"] = prefix
    /\ Method["grouping"] = grouping
    /\ Method["args"] = args
    /\ Method["expressions"] = expressions
    /\ Method["synchronize"] = synchronize
    /\ Method["program"] = <<Own("program")>>
    /\ Method["declaration"] = <<Own("declaration")>>
    /\ Method["statement"] = <<Own("statement")>>
    /\ Method["type"] = <<Own("type")>>
BY DEF Method

\* Every method, instruction by instruction.
LEMMA Table == \A m \in Methods : Tabled(m)
<1> USE Names, Programs DEF Tabled, Sound, Moves, Bracket, Calls, Waits, Steps, Expect, Require,
                             Call, Need, Pass, Optional, Repeat, Unless, Own
<1>1. Tabled("import")
  BY DEF importDecl
<1>2. Tabled("func")
  BY DEF funcDecl
<1>3. Tabled("parameters")
  BY DEF parameters
<1>4. Tabled("parameter")
  BY DEF parameter
<1>5. Tabled("var")
  BY DEF varDecl
<1>6. Tabled("exprStatement")
  BY DEF exprStatement
<1>7. Tabled("if")
  BY DEF ifStatement
<1>8. Tabled("return")
  BY DEF returnStatement
<1>9. Tabled("while")
  BY DEF whileStatement
<1>10. Tabled("for")
  BY DEF forStatement
<1>11. Tabled("say")
  BY DEF sayStatement
<1>12. Tabled("trace")
  BY DEF traceStatement
<1>13. Tabled("block")
  BY DEF blockStatement
<1>14. Tabled("expression")
  BY DEF expression
<1>15. Tabled("unary")
  BY DEF unary
<1>16. Tabled("prefix")
  BY DEF prefix
<1>17. Tabled("grouping")
  BY DEF grouping
<1>18. Tabled("args")
  BY DEF args
<1>19. Tabled("expressions")
  BY DEF expressions
<1>20. Tabled("synchronize")
  BY DEF synchronize
<1>21. Tabled("program")
  OBVIOUS
<1>22. Tabled("declaration")
  OBVIOUS
<1>23. Tabled("statement")
  OBVIOUS
<1>24. Tabled("type")
  OBVIOUS
<1> HIDE DEF Tabled
<1> QED  BY <1>1, <1>2, <1>3, <1>4, <1>5, <1>6, <1>7, <1>8, <1>9, <1>10, <1>11, <1>12,
            <1>13, <1>14, <1>15, <1>16, <1>17, <1>18, <1>19, <1>20, <1>21, <1>22, <1>23, <1>24

-----------------------------------------------------------------------------
(* The inductive invariant *)

\* The reader is at the position p with the current token c, after e errors.
\* The text has gone on since the frame, a block, noted where it was.
Moved(f, p, c) == f.last < p \/ c = "eof"

\* A method in progress: an error is behind every null pointer and every recovery.
FrameOK(f, p, e) ==
    /\ f.pc <= Len(Method[f.method]) + 1
    /\ f.method \in {"declaration", "statement"} => f.pc = 1
    /\ f.stuck <= 1 /\ f.last <= p
    /\ (~f.node \/ f.method = "synchronize") => e > 0

\* A method and the one it has called.  A block waits for a declaration until that
\* has consumed a token or failed, and after a failure for synchronize, which skips
\* one: so when the block goes on the text has.
WaitsFor(f, g, p, c) ==
    /\ f.pc <= Len(Method[f.method]) /\ Method[f.method][f.pc].do \in Waits
    /\ (f.method = "block" /\ f.pc = 1) =>
          (g.method = "synchronize" /\ (g.pc > 1 => Moved(f, p, c)))
    /\ (f.method = "block" /\ f.pc = 2) =>
          (Moved(f, p, c) \/ g.method = "declaration"
           \/ (g.method = "exprStatement" /\ (g.pc = 3 => ~g.node)))

TopOK(f, p, c) == (f.method = "block" /\ f.pc = 1) => (f.stuck = 0 \/ Moved(f, p, c))

ReadOn(c, e) == e = 0 => c = "eof"

\* The call stack s; the program at the bottom goes on until the end of the file.
StackIs(s, p, c, e) ==
    /\ s \in Seq(Frame)
    /\ \A i \in 1..Len(s) : FrameOK(s[i], p, e)
    /\ \A i \in 1..(Len(s) - 1) : WaitsFor(s[i], s[i + 1], p, c)
    /\ s # <<>> => TopOK(s[Len(s)], p, c) /\ s[1].method = "program"
                   /\ (s[1].pc > 1 => ReadOn(c, e))
    /\ s = <<>> => ReadOn(c, e)

StackOK == StackIs(stack, position, current, errors)
StackNext == StackIs(stack', position', current', errors')

Brackets == {"lparen", "rparen", "lbrace", "rbrace"}

ReaderOK ==
    /\ file \in Files
    /\ current \in file.tokens \cup {"eof"}
    /\ semicolon \in BOOLEAN
    /\ position \in 1..(file.length + 1)
    /\ current # "eof" => position <= file.length
    /\ errors \in 0..(file.patience + 1)
    /\ brackets \in Seq(Brackets)

MethodsInv == ReaderOK /\ StackOK /\ incomplete \in BOOLEAN /\ NullIsReported

-----------------------------------------------------------------------------
(* The text and the errors: what Advance, Report and Stays do *)

LEMMA Bounds ==
    ASSUME NEW f \in Files
    PROVE  f.length \in Nat /\ f.length > 0 /\ f.patience \in Nat /\ f.tokens \subseteq AllTokens
BY FilesAssumption

\* What every step does: nothing is unread, no error is forgotten.
Onward ==
    /\ file' = file
    /\ position \in Nat /\ position' \in Nat /\ position <= position'
    /\ errors \in Nat /\ errors' \in Nat /\ (errors > 0 => errors' > 0)
    /\ current = "eof" => current' = "eof"

\* A token has been consumed, if there was one.
Consumed == position < position' \/ current' = "eof"

LEMMA OpenAfterType ==
    ASSUME ReaderOK
    PROVE  OpenAfter \in Seq(Brackets)
<1>1. brackets \in Seq(Brackets)
  BY DEF ReaderOK
<1>2. Len(brackets) > 0 => SubSeq(brackets, 1, Len(brackets) - 1) \in Seq(Brackets)
  BY <1>1, SubSeqProperties, LenProperties
<1>3. current \in Brackets => Append(brackets, current) \in Seq(Brackets)
  BY <1>1, AppendProperties
<1> QED  BY <1>1, <1>2, <1>3 DEF OpenAfter, Brackets

LEMMA Advances ==
    ASSUME ReaderOK, NEW r \in BOOLEAN, Advance(r)
    PROVE  /\ ReaderOK' /\ Onward /\ Consumed
           /\ errors' = 0 => (errors = 0 /\ brackets' = OpenAfter)
           /\ r => errors' > 0
<1>1. file \in Files /\ file' = file /\ file.length \in Nat /\ file.length > 0
      /\ file.patience \in Nat
  BY Bounds DEF ReaderOK, Advance
<1>2. PICK next \in (IF current = "eof" \/ position >= file.length THEN {"eof"}
                     ELSE file.tokens \cup {"eof"}) : Advance(r)!(next)
  BY DEF Advance
<1> DEFINE before == errors + (IF r THEN 1 ELSE 0)
           after == before + (IF next = "unknown" THEN 1 ELSE 0)
<1>3. before \in Nat /\ before >= errors /\ (r => before > 0)
      /\ after \in Nat /\ after >= before /\ errors \in Nat
  BY DEF ReaderOK
<1>4. current' = next /\ semicolon' = (current = "semicolon") /\ position' = Ahead
      /\ errors' = Capped(after) /\ brackets' = IF after > 0 THEN <<>> ELSE OpenAfter
  BY <1>2
<1> HIDE DEF before, after
<1>5. errors' \in 0..(file.patience + 1) /\ (after > 0 => errors' > 0)
  BY <1>1, <1>3, <1>4 DEF Capped
<1>6. position' \in 1..(file.length + 1) /\ position <= position' /\ position \in Nat
      /\ Consumed /\ (current' # "eof" => position' <= file.length)
         /\ (current = "eof" => current' = "eof")
      /\ current' \in file.tokens \cup {"eof"}
  BY <1>1, <1>2, <1>4 DEF Ahead, Consumed, ReaderOK
<1>7. brackets' \in Seq(Brackets)
  BY <1>4, OpenAfterType
<1>8. semicolon' \in BOOLEAN
  BY <1>4
<1>9. ReaderOK'
  BY <1>1, <1>5, <1>6, <1>7, <1>8 DEF ReaderOK
<1>10. Onward
  BY <1>1, <1>3, <1>5, <1>6 DEF Onward
<1> QED  BY <1>3, <1>4, <1>5, <1>6, <1>9, <1>10

LEMMA Reports ==
    ASSUME ReaderOK, Report, UNCHANGED lexerState
    PROVE  ReaderOK' /\ Onward /\ errors' > 0
<1>1. file \in Files /\ file' = file /\ file.length \in Nat /\ file.length > 0
      /\ file.patience \in Nat
  BY Bounds DEF ReaderOK, lexerState
<1>2. errors' \in 0..(file.patience + 1) /\ errors' > 0
  BY <1>1 DEF Report, Capped, ReaderOK
<1>3. brackets' \in Seq(Brackets)
  BY DEF Report
<1> QED  BY <1>1, <1>2, <1>3 DEF ReaderOK, Onward, lexerState

LEMMA StaysOnward ==
    ASSUME ReaderOK, Stays
    PROVE  ReaderOK' /\ Onward /\ position' = position /\ errors' = errors /\ brackets' = brackets
           /\ current' = current
<1>1. file \in Files /\ file' = file /\ file.length \in Nat /\ file.length > 0
      /\ file.patience \in Nat
  BY Bounds DEF ReaderOK, lexerState, Stays
<1> QED  BY <1>1 DEF ReaderOK, Onward, Stays, lexerState, reports

-----------------------------------------------------------------------------
(* The call stack: what a step does to the methods in progress *)

LEMMA MethodNames ==
    {"import", "func", "var", "if", "return", "while", "for", "say", "trace", "block",
     "exprStatement", "prefix", "grouping", "declaration", "statement", "program",
     "synchronize", "unary", "args"} \subseteq Methods
BY Names

LEMMA FrameFields ==
    ASSUME NEW f \in Frame
    PROVE  /\ f.method \in Methods /\ f.pc \in 1..8 /\ f.node \in BOOLEAN
           /\ f.last \in 0..(file.length + 1) /\ f.stuck \in 0..4
           /\ Len(Method[f.method]) \in 1..7
           /\ f.method \in {"exprStatement", "synchronize", "unary"} => Len(Method[f.method]) = 2
           /\ f.method = "block" => Len(Method[f.method]) = 3
           /\ f.method \in {"program", "declaration", "statement"} => Len(Method[f.method]) = 1
           /\ f.pc <= Len(Method[f.method]) => Sound(f.method, f.pc, Method[f.method][f.pc])
<1>1. f.method \in Methods /\ f.pc \in 1..8 /\ f.node \in BOOLEAN
      /\ f.last \in 0..(file.length + 1) /\ f.stuck \in 0..4
  BY DEF Frame
<1>2. Tabled(f.method)
  BY <1>1, Table
<1> QED  BY <1>1, <1>2 DEF Tabled

\* What held of the frames that a step leaves alone goes on holding.
LEMMA FramesKept ==
    ASSUME Onward
    PROVE  /\ Frame' = Frame
           /\ \A f \in Frame : FrameOK(f, position, errors) => FrameOK(f, position', errors')
           /\ \A f, g \in Frame : WaitsFor(f, g, position, current)
              => WaitsFor(f, g, position', current')
           /\ \A f \in Frame : Moved(f, position, current) => Moved(f, position', current')
           /\ ReadOn(current, errors) => ReadOn(current', errors')
<1>1. Frame' = Frame
  BY DEF Frame, Onward
<1>2. ASSUME NEW f \in Frame, FrameOK(f, position, errors) PROVE FrameOK(f, position', errors')
  <2>1. f.last \in Int
    BY FrameFields DEF Frame
  <2> QED  BY <1>2, <2>1 DEF FrameOK, Onward
<1>3. ASSUME NEW f \in Frame, Moved(f, position, current) PROVE Moved(f, position', current')
  <2>1. f.last \in Int
    BY FrameFields DEF Frame
  <2> QED  BY <1>3, <2>1 DEF Moved, Onward
<1>4. ASSUME NEW f \in Frame, NEW g \in Frame, WaitsFor(f, g, position, current)
             PROVE WaitsFor(f, g, position', current')
  BY <1>3, <1>4 DEF WaitsFor
<1>5. ReadOn(current, errors) => ReadOn(current', errors')
  BY DEF ReadOn, Onward
<1> QED  BY <1>1, <1>2, <1>3, <1>4, <1>5

\* After a token has been consumed every block has moved on.
LEMMA AllMoved ==
    ASSUME Onward, Consumed, NEW f \in Frame, FrameOK(f, position, errors)
    PROVE  Moved(f, position', current')
<1>1. f.last \in Int /\ f.last <= position
  BY FrameFields DEF FrameOK
<1> QED  BY <1>1 DEF Moved, Onward, Consumed

\* The innermost method goes on, or another takes its place.
LEMMA Replacing ==
    ASSUME StackOK, stack # <<>>, Onward, file \in Files, NEW g \in Frame, stack' = Replaced(g),
           FrameOK(g, position', errors'), TopOK(g, position', current'),
           Len(stack) > 1 => (WaitsFor(stack[Len(stack) - 1], Top, position, current)
           => WaitsFor(stack[Len(stack) - 1], g, position', current')),
           Len(stack) = 1 => g.method = "program" /\ (g.pc > 1 => ReadOn(current', errors'))
    PROVE  StackNext
<1>1. stack \in Seq(Frame) /\ Len(stack) \in Nat /\ Len(stack) > 0
  BY DEF StackOK, StackNext, StackIs
<1>2. /\ stack' \in Seq(Frame) /\ Len(stack') = Len(stack) /\ stack' # <<>>
      /\ \A i \in 1..Len(stack) : stack'[i] = IF i = Len(stack) THEN g ELSE stack[i]
  BY <1>1 DEF Replaced
<1>3. \A i \in 1..Len(stack') : FrameOK(stack'[i], position', errors')
  BY <1>1, <1>2, FramesKept DEF StackOK, StackNext, StackIs
<1>4. ASSUME NEW i \in 1..(Len(stack') - 1)
             PROVE WaitsFor(stack'[i], stack'[i + 1], position', current')
  <2>1. i \in 1..(Len(stack) - 1) /\ WaitsFor(stack[i], stack[i + 1], position, current)
        /\ stack'[i] = stack[i]
    BY <1>1, <1>2 DEF StackOK, StackNext, StackIs
  <2>2. CASE i = Len(stack) - 1
    BY <1>1, <1>2, <2>1, <2>2 DEF Top
  <2>3. CASE i # Len(stack) - 1
    <3>1. stack'[i + 1] = stack[i + 1] /\ stack[i] \in Frame /\ stack[i + 1] \in Frame
      BY <1>1, <1>2, <2>1, <2>3
    <3> QED  BY <2>1, <3>1, FramesKept
  <2> QED  BY <2>2, <2>3
<1>5. TopOK(stack'[Len(stack')], position', current') /\ stack'[1].method = "program"
      /\ (stack'[1].pc > 1 => ReadOn(current', errors'))
  <2>1. CASE Len(stack) = 1
    BY <1>1, <1>2, <2>1
  <2>2. CASE Len(stack) # 1
    BY <1>1, <1>2, <2>2, FramesKept DEF StackOK, StackNext, StackIs
  <2> QED  BY <2>1, <2>2
<1> QED  BY <1>2, <1>3, <1>4, <1>5, FramesKept DEF StackOK, StackNext, StackIs

\* The innermost method calls another.
LEMMA Pushing ==
    ASSUME StackOK, stack # <<>>, Onward, NEW g \in Frame, stack' = Append(stack, g),
           FrameOK(g, position', errors'), TopOK(g, position', current'),
           WaitsFor(Top, g, position', current')
    PROVE  StackNext
<1>1. stack \in Seq(Frame) /\ Len(stack) \in Nat /\ Len(stack) > 0
  BY DEF StackOK, StackNext, StackIs
<1>2. /\ stack' \in Seq(Frame) /\ Len(stack') = Len(stack) + 1 /\ stack' # <<>>
      /\ \A i \in 1..Len(stack) : stack'[i] = stack[i]
      /\ stack'[Len(stack) + 1] = g
  BY <1>1, AppendProperties
<1>3. \A i \in 1..Len(stack') : FrameOK(stack'[i], position', errors')
  BY <1>1, <1>2, FramesKept DEF StackOK, StackNext, StackIs
<1>4. ASSUME NEW i \in 1..(Len(stack') - 1)
             PROVE WaitsFor(stack'[i], stack'[i + 1], position', current')
  <2>1. CASE i = Len(stack)
    BY <1>1, <1>2, <2>1 DEF Top
  <2>2. CASE i # Len(stack)
    <3>1. i \in 1..(Len(stack) - 1) /\ WaitsFor(stack[i], stack[i + 1], position, current)
      BY <1>1, <1>2, <2>2 DEF StackOK, StackNext, StackIs
    <3>2. stack'[i] = stack[i] /\ stack'[i + 1] = stack[i + 1] /\ stack[i] \in Frame
          /\ stack[i + 1] \in Frame
      BY <1>1, <1>2, <3>1
    <3> QED  BY <3>1, <3>2, FramesKept
  <2> QED  BY <2>1, <2>2
<1>5. TopOK(stack'[Len(stack')], position', current') /\ stack'[1].method = "program"
      /\ (stack'[1].pc > 1 => ReadOn(current', errors'))
  BY <1>1, <1>2, FramesKept DEF StackOK, StackNext, StackIs
<1> QED  BY <1>2, <1>3, <1>4, <1>5, FramesKept DEF StackOK, StackNext, StackIs

\* A method returns: its caller, what that asked of it, how that goes on, and the
\* stack without the method.
Caller == stack[Len(stack) - 1]
Asked == Method[Caller.method][Caller.pc].do
CallerNext == Resumed(Caller, Asked, Top.node)
Below == [SubSeq(stack, 1, Len(stack) - 1) EXCEPT ![Len(stack) - 1] = CallerNext]

LEMMA Popping ==
    ASSUME StackOK, Len(stack) > 1, Onward, CallerNext \in Frame,
           FrameOK(CallerNext, position', errors'), CallerNext.method = Caller.method,
           Len(stack) > 2 => (WaitsFor(stack[Len(stack) - 2], Caller, position, current)
                              => WaitsFor(stack[Len(stack) - 2], CallerNext, position', current')),
           Len(stack) = 2 => CallerNext.pc = stack[1].pc
    PROVE  /\ Below \in Seq(Frame) /\ Len(Below) = Len(stack) - 1 /\ Below[Len(Below)] = CallerNext
           /\ stack' = Below /\ TopOK(CallerNext, position', current') => StackNext
           /\ \A g \in Frame : stack' = Append(Below, g) /\ FrameOK(g, position', errors')
              /\ TopOK(g, position', current') /\ WaitsFor(CallerNext, g, position', current')
                               => StackNext
<1> DEFINE n == Len(stack) - 1
           u == SubSeq(stack, 1, n)
<1>1. stack \in Seq(Frame) /\ n \in Nat /\ n > 0 /\ Len(stack) = n + 1 /\ stack # <<>>
  BY EmptySeq DEF StackOK, StackNext, StackIs
<1>2. u \in Seq(Frame) /\ Len(u) = n /\ \A i \in 1..n : u[i] = stack[i]
  BY <1>1, SubSeqProperties
<1>0. Below = [u EXCEPT ![n] = CallerNext] /\ Caller = stack[n]
  BY DEF Below, Caller
<1> HIDE DEF u, n
<1>3. Below \in Seq(Frame) /\ Len(Below) = n
      /\ \A i \in 1..n : Below[i] = IF i = n THEN CallerNext ELSE stack[i]
  BY <1>0, <1>1, <1>2
<1>4. \A i \in 1..n : FrameOK(Below[i], position', errors')
  BY <1>1, <1>3, FramesKept DEF StackOK, StackNext, StackIs
<1>5. ASSUME NEW i \in 1..(n - 1) PROVE WaitsFor(Below[i], Below[i + 1], position', current')
  <2>1. WaitsFor(stack[i], stack[i + 1], position, current) /\ Below[i] = stack[i]
    BY <1>1, <1>3 DEF StackOK, StackNext, StackIs
  <2>2. CASE i = n - 1
    BY <1>0, <1>1, <1>3, <2>1, <2>2
  <2>3. CASE i # n - 1
    <3>1. Below[i + 1] = stack[i + 1] /\ stack[i] \in Frame /\ stack[i + 1] \in Frame
      BY <1>1, <1>3, <2>3
    <3> QED  BY <2>1, <3>1, FramesKept
  <2> QED  BY <2>2, <2>3
<1>6. Below[1].method = "program" /\ (Below[1].pc > 1 => ReadOn(current', errors'))
  <2>1. stack[1].method = "program" /\ (stack[1].pc > 1 => ReadOn(current', errors'))
    BY <1>1, FramesKept DEF StackOK, StackNext, StackIs
  <2>2. CASE n = 1
    BY <1>0, <1>1, <1>3, <2>1, <2>2
  <2>3. CASE n # 1
    BY <1>1, <1>3, <2>1, <2>3
  <2> QED  BY <2>2, <2>3
<1>7. Below # <<>>
  BY <1>1, <1>3
<1>8. ASSUME stack' = Below, TopOK(CallerNext, position', current') PROVE StackNext
  <2>1. \A i \in 1..Len(Below) : FrameOK(Below[i], position', errors')
    BY <1>3, <1>4
  <2>2. \A i \in 1..(Len(Below) - 1) : WaitsFor(Below[i], Below[i + 1], position', current')
    BY <1>3, <1>5
  <2>3. TopOK(Below[Len(Below)], position', current')
    BY <1>1, <1>3, <1>8
  <2> QED  BY <1>3, <1>6, <1>7, <1>8, <2>1, <2>2, <2>3 DEF StackNext, StackIs
<1>9. ASSUME NEW g \in Frame, stack' = Append(Below, g), FrameOK(g, position', errors'),
             TopOK(g, position', current'), WaitsFor(CallerNext, g, position', current')
      PROVE  StackNext
  <2>1. /\ stack' \in Seq(Frame) /\ Len(stack') = n + 1 /\ stack' # <<>>
        /\ \A i \in 1..n : stack'[i] = Below[i]
        /\ stack'[n + 1] = g
    BY <1>3, <1>9, AppendProperties
  <2>2. \A i \in 1..Len(stack') : FrameOK(stack'[i], position', errors')
    BY <1>1, <1>4, <1>9, <2>1
  <2>3. ASSUME NEW i \in 1..(Len(stack') - 1)
               PROVE WaitsFor(stack'[i], stack'[i + 1], position', current')
    <3>1. CASE i = n
      BY <1>1, <1>3, <1>9, <2>1, <3>1
    <3>2. CASE i # n
      BY <1>1, <1>5, <2>1, <3>2
    <3> QED  BY <3>1, <3>2
  <2>4. TopOK(stack'[Len(stack')], position', current') /\ stack'[1].method = "program"
        /\ (stack'[1].pc > 1 => ReadOn(current', errors'))
    BY <1>1, <1>6, <1>9, <2>1
  <2> QED  BY <2>1, <2>2, <2>3, <2>4, FramesKept DEF StackOK, StackNext, StackIs
<1>10. Len(Below) = Len(stack) - 1 /\ Below[Len(Below)] = CallerNext
  BY <1>1, <1>3
<1> QED  BY <1>3, <1>8, <1>9, <1>10

LEMMA TopFacts ==
    ASSUME StackOK, stack # <<>>
    PROVE  /\ stack \in Seq(Frame) /\ Len(stack) \in Nat /\ Len(stack) > 0
           /\ Top \in Frame /\ FrameOK(Top, position, errors) /\ TopOK(Top, position, current)
           /\ ~Finished => Top.pc <= Len(Method[Top.method])
              /\ Sound(Top.method, Top.pc, Instruction)
           /\ Finished => Top.pc = Len(Method[Top.method]) + 1
           /\ Len(stack) = 1 => Top.method = "program"
           /\ Len(stack) > 1 => /\ stack[Len(stack) - 1] \in Frame
                                /\ FrameOK(stack[Len(stack) - 1], position, errors)
                                /\ WaitsFor(stack[Len(stack) - 1], Top, position, current)
<1>1. stack \in Seq(Frame) /\ Len(stack) \in Nat /\ Len(stack) > 0
  BY DEF StackOK, StackIs
<1>2. Top \in Frame /\ FrameOK(Top, position, errors) /\ TopOK(Top, position, current)
  BY <1>1 DEF StackOK, StackIs, Top
<1>3. Len(stack) = 1 => Top.method = "program"
  BY DEF StackOK, StackIs, Top
<1>4. Len(stack) > 1 => /\ stack[Len(stack) - 1] \in Frame
                        /\ FrameOK(stack[Len(stack) - 1], position, errors)
  BY <1>1 DEF StackOK, StackIs
<1>5. Len(stack) > 1 => WaitsFor(stack[Len(stack) - 1], Top, position, current)
  <2>1. HAVE Len(stack) > 1
  <2>2. Len(stack) - 1 \in 1..(Len(stack) - 1) /\ (Len(stack) - 1) + 1 = Len(stack)
    BY <1>1, <2>1
  <2> QED  BY <2>2 DEF StackOK, StackIs, Top
<1>6. ~Finished => Top.pc <= Len(Method[Top.method]) /\ Sound(Top.method, Top.pc, Instruction)
  BY <1>2, FrameFields DEF Finished, Instruction
<1>7. Finished => Top.pc = Len(Method[Top.method]) + 1
  BY <1>2, FrameFields DEF Finished, FrameOK
<1> QED  BY <1>1, <1>2, <1>3, <1>4, <1>5, <1>6, <1>7

\* A method at its first instruction.
LEMMA Enters ==
    ASSUME ReaderOK', Onward, NEW m \in Methods, m = "synchronize" => errors' > 0
    PROVE  /\ Entered(m, position') \in Frame
           /\ Entered(m, position').method = m /\ Entered(m, position').pc = 1
           /\ FrameOK(Entered(m, position'), position', errors')
           /\ TopOK(Entered(m, position'), position', current')
<1>1. file \in Files /\ file' = file /\ position' \in 1..(file.length + 1) /\ file.length \in Nat
  BY Bounds DEF ReaderOK, Onward
<1> DEFINE g == Entered(m, position')
<1>2. g.method = m /\ g.pc = 1 /\ g.node = TRUE /\ g.last \in 0..(file.length + 1) /\ g.stuck = 0
      /\ g.last <= position' /\ g \in Frame
  BY <1>1 DEF Entered, Frame
<1>3. Len(Method[m]) \in 1..7
  BY Table DEF Tabled
<1> HIDE DEF g
<1>4. FrameOK(g, position', errors')
  BY <1>2, <1>3 DEF FrameOK
<1>5. TopOK(g, position', current')
  BY <1>2 DEF TopOK
<1> QED  BY <1>2, <1>4, <1>5 DEF g

\* The innermost method goes on with its next instruction.
LEMMA Stepping ==
    ASSUME ReaderOK, StackOK, Onward, stack # <<>>, ~Finished, stack' = Stepped,
           Instruction.do \notin {"declaration", "statement"},
           (Top.method = "exprStatement" /\ Top.pc = 2) => Consumed,
           Instruction.do = "skip" => Consumed,
           Instruction.do = "program" => ReadOn(current', errors')
    PROVE  StackNext
<1> DEFINE g == [Top EXCEPT !.pc = @ + 1]
           u == stack[Len(stack) - 1]
<1>1. /\ Top \in Frame /\ FrameOK(Top, position, errors) /\ Top.pc <= Len(Method[Top.method])
      /\ Sound(Top.method, Top.pc, Instruction)
  BY TopFacts
<1>2. /\ g \in Frame /\ g.method = Top.method /\ g.pc = Top.pc + 1 /\ g.node = Top.node
      /\ g.last = Top.last /\ g.stuck = Top.stuck /\ Top.pc \in 1..8
  <2>0. Top.pc \in 1..8 /\ Len(Method[Top.method]) \in 1..7
    BY <1>1, FrameFields
  <2>1. \A n \in 1..8, k \in 1..7 : n <= k => n + 1 \in 1..8
    OBVIOUS
  <2> QED  BY <1>1, <2>0, <2>1 DEF Frame
<1>3. FrameOK(g, position', errors')
  <2>1. FrameOK(Top, position', errors')
    BY <1>1, FramesKept
  <2>2. Top.method \notin {"declaration", "statement"}
    BY <1>1 DEF Sound
  <2> QED  BY <1>1, <1>2, <2>1, <2>2 DEF FrameOK
<1>4. TopOK(g, position', current')
  BY <1>2 DEF TopOK
<1>5. ASSUME Len(stack) > 1, WaitsFor(u, Top, position, current)
             PROVE WaitsFor(u, g, position', current')
  <2>1. u \in Frame /\ FrameOK(u, position, errors)
    BY <1>5, TopFacts
  <2>2. WaitsFor(u, Top, position', current')
    BY <1>1, <1>5, <2>1, FramesKept
  <2>3. Consumed => Moved(u, position', current')
    BY <2>1, AllMoved
  <2>4. ASSUME u.method = "block", u.pc = 1
               PROVE g.method = "synchronize" /\ Moved(u, position', current')
    <3>1. Top.method = "synchronize" /\ (Top.pc > 1 => Moved(u, position', current'))
      BY <2>2, <2>4 DEF WaitsFor
    <3>2. Top.pc = 1 => Instruction.do = "skip"
      BY <1>1, <3>1 DEF Sound
    <3> QED  BY <1>2, <2>3, <3>1, <3>2
  <2>5. ASSUME u.method = "block", u.pc = 2
        PROVE  Moved(u, position', current')
               \/ (g.method = "exprStatement" /\ (g.pc = 3 => ~g.node))
    <3>1. Moved(u, position', current') \/ Top.method = "declaration"
          \/ Top.method = "exprStatement"
      BY <2>2, <2>5 DEF WaitsFor
    <3>2. Top.method # "declaration"
      BY <1>1 DEF Sound
    <3>3. g.pc = 3 => Top.pc = 2
      BY <1>2
    <3> QED  BY <1>2, <2>3, <3>1, <3>2, <3>3
  <2> QED  BY <2>2, <2>4, <2>5 DEF WaitsFor
<1>6. Len(stack) = 1 => g.method = "program" /\ (g.pc > 1 => ReadOn(current', errors'))
  <2>1. Len(stack) = 1 => Top.method = "program"
    BY TopFacts
  <2>2. Top.method = "program" => Instruction.do = "program"
    BY <1>1 DEF Sound
  <2> QED  BY <1>2, <2>1, <2>2
<1>7. stack' = Replaced(g) /\ file \in Files
  BY DEF Stepped, ReaderOK
<1> HIDE DEF g, u
<1> QED  BY <1>2, <1>3, <1>4, <1>5, <1>6, <1>7, Replacing DEF u

\* The innermost method gives up with a null pointer, and an error.
LEMMA Abandoning ==
    ASSUME ReaderOK, StackOK, Onward, stack # <<>>, ~Finished, stack' = Replaced(Abandoned(Top)),
           Instruction.do = "require", errors' > 0
    PROVE  StackNext
<1> DEFINE n == Len(Method[Top.method])
           g == Abandoned(Top)
           u == stack[Len(stack) - 1]
<1>1. /\ Top \in Frame /\ FrameOK(Top, position, errors) /\ Top.pc <= n
      /\ Sound(Top.method, Top.pc, Instruction)
  BY TopFacts
<1>2. /\ g \in Frame /\ g.method = Top.method /\ g.pc = n + 1 /\ g.node = FALSE
      /\ g.last = Top.last /\ g.stuck = Top.stuck
  <2>1. n \in 1..7
    BY <1>1, FrameFields
  <2>2. g = [Top EXCEPT !.pc = n + 1, !.node = FALSE]
    BY DEF Abandoned
  <2> HIDE DEF n, g
  <2>3. n + 1 \in 1..8
    BY <2>1
  <2> QED  BY <1>1, <2>2, <2>3 DEF Frame
<1>3. Top.method \notin {"declaration", "statement", "program", "block", "synchronize"}
  <2>1. Top.method \notin {"declaration", "statement", "program"}
    BY <1>1 DEF Sound
  <2>2. Top.method # "block"
    <3>1. Top.method = "block" => Top.pc = 1 \/ Top.pc = 2 \/ Top.pc = 3
      BY <1>1, FrameFields
    <3> QED  BY <1>1, <3>1 DEF Sound
  <2>3. Top.method # "synchronize"
    <3>1. Top.method = "synchronize" => Top.pc = 1 \/ Top.pc = 2
      BY <1>1, FrameFields
    <3> QED  BY <1>1, <3>1 DEF Sound
  <2> QED  BY <2>1, <2>2, <2>3
<1>4. FrameOK(g, position', errors')
  <2>1. FrameOK(Top, position', errors')
    BY <1>1, FramesKept
  <2> QED  BY <1>2, <1>3, <2>1 DEF FrameOK
<1>5. TopOK(g, position', current')
  BY <1>2, <1>3 DEF TopOK
<1>6. ASSUME Len(stack) > 1, WaitsFor(u, Top, position, current)
             PROVE WaitsFor(u, g, position', current')
  <2>1. u \in Frame
    BY <1>6, TopFacts
  <2>2. WaitsFor(u, Top, position', current')
    BY <1>1, <1>6, <2>1, FramesKept
  <2> QED  BY <1>2, <1>3, <2>2 DEF WaitsFor
<1>7. Len(stack) # 1
  BY <1>3, TopFacts
<1>8. file \in Files
  BY DEF ReaderOK
<1> HIDE DEF g, u
<1> QED  BY <1>2, <1>4, <1>5, <1>6, <1>7, <1>8, Replacing DEF g, u

\* Another method takes the place of the innermost one.
LEMMA Starting ==
    ASSUME ReaderOK, ReaderOK', StackOK, Onward, stack # <<>>,
           Top.method \in {"declaration", "statement", "unary"}, NEW m \in Methods,
           m # "synchronize", Consumed \/ m = "exprStatement",
           stack' = Replaced(Entered(m, position'))
    PROVE  StackNext
<1> DEFINE g == Entered(m, position')
           u == stack[Len(stack) - 1]
<1>1. Top \in Frame /\ FrameOK(Top, position, errors)
  BY TopFacts
<1>2. g \in Frame /\ g.method = m /\ g.pc = 1 /\ FrameOK(g, position', errors')
      /\ TopOK(g, position', current')
  BY Enters
<1>3. ASSUME Len(stack) > 1, WaitsFor(u, Top, position, current)
             PROVE WaitsFor(u, g, position', current')
  <2>1. u \in Frame /\ FrameOK(u, position, errors)
    BY <1>3, TopFacts
  <2>2. WaitsFor(u, Top, position', current')
    BY <1>1, <1>3, <2>1, FramesKept
  <2>3. Consumed => Moved(u, position', current')
    BY <2>1, AllMoved
  <2> QED  BY <1>2, <2>2, <2>3 DEF WaitsFor
<1>4. Len(stack) # 1
  BY TopFacts
<1>5. file \in Files
  BY DEF ReaderOK
<1> HIDE DEF g, u
<1> QED  BY <1>2, <1>3, <1>4, <1>5, Replacing DEF g, u

\* The innermost method calls m.
LEMMA Called ==
    ASSUME ReaderOK', StackOK, Onward, stack # <<>>, ~Finished, NEW m \in Methods,
           stack' = Calling(m),
           m # "synchronize", Instruction.do \in Waits \ {"block"}, Instruction.do = "blockItem"
           => m = "declaration"
    PROVE  StackNext
<1> DEFINE g == Entered(m, position')
<1>1. /\ Top \in Frame /\ FrameOK(Top, position, errors) /\ Top.pc <= Len(Method[Top.method])
      /\ Sound(Top.method, Top.pc, Instruction)
  BY TopFacts
<1>2. g \in Frame /\ g.method = m /\ g.pc = 1 /\ FrameOK(g, position', errors')
      /\ TopOK(g, position', current')
  BY Enters
<1>3. WaitsFor(Top, g, position', current')
  <2>1. ~(Top.method = "block" /\ Top.pc = 1)
        /\ (Top.method = "block" /\ Top.pc = 2 => m = "declaration")
    BY <1>1 DEF Sound
  <2> QED  BY <1>1, <1>2, <2>1 DEF WaitsFor, Instruction
<1>4. stack' = Append(stack, g)
  BY DEF Calling
<1> HIDE DEF g
<1> QED  BY <1>2, <1>3, <1>4, Pushing

\* What the caller of a method goes on as.
LEMMA Resuming ==
    ASSUME ReaderOK, StackOK, Stays, stack # <<>>, Finished, Len(stack) > 1
    PROVE  /\ Caller \in Frame /\ FrameOK(Caller, position, errors)
              /\ WaitsFor(Caller, Top, position, current)
           /\ Caller.pc <= Len(Method[Caller.method])
              /\ Sound(Caller.method, Caller.pc, Method[Caller.method][Caller.pc])
           /\ Asked \in Waits /\ CallerNext \in Frame /\ CallerNext.method = Caller.method
           /\ Asked \in {"program", "block", "repeat"} => CallerNext.pc = Caller.pc
           /\ Asked = "blockItem" => CallerNext.pc = 1
           /\ (Asked = "need" /\ ~Top.node) => (CallerNext.pc = 3 /\ ~CallerNext.node)
           /\ Asked \in {"pass", "operand", "call", "unless", "optional"}
              \/ (Asked = "need" /\ Top.node)
              => CallerNext.pc = Caller.pc + 1
           /\ CallerNext.last = Caller.last /\ CallerNext.stuck = Caller.stuck
              /\ CallerNext.node \in BOOLEAN
           /\ ~CallerNext.node => (~Caller.node \/ ~Top.node)
<1>0. Caller = stack[Len(stack) - 1] /\ Asked = Method[Caller.method][Caller.pc].do
      /\ CallerNext = Resumed(Caller, Asked, Top.node)
  BY DEF Caller, Asked, CallerNext
<1>1. Caller \in Frame /\ FrameOK(Caller, position, errors)
      /\ WaitsFor(Caller, Top, position, current) /\ Top \in Frame
  BY <1>0, TopFacts
<1>2. Caller.pc <= Len(Method[Caller.method]) /\ Asked \in Waits
  BY <1>0, <1>1 DEF WaitsFor
<1>3. Sound(Caller.method, Caller.pc, Method[Caller.method][Caller.pc]) /\ Caller.pc \in 1..8
      /\ Len(Method[Caller.method]) \in 1..7
      /\ Caller.node \in BOOLEAN /\ Top.node \in BOOLEAN
  BY <1>1, <1>2, FrameFields
<1>4. Asked = "need" => Caller.method = "exprStatement" /\ Len(Method[Caller.method]) = 2
  BY <1>1, <1>3, FrameFields, <1>0 DEF Sound
<1>5. Caller.pc + 1 \in 1..8
  BY <1>2, <1>3
<1>6. CASE Asked \in {"pass", "operand"}
  <2>1. CallerNext = [Caller EXCEPT !.pc = @ + 1, !.node = Top.node]
    BY <1>0, <1>6 DEF Resumed
  <2> QED  BY <1>1, <1>2, <1>3, <1>5, <1>6, <2>1 DEF Frame
<1>7. CASE Asked = "need" /\ ~Top.node
  <2> DEFINE n == Len(Method[Caller.method])
             next == n + 1
  <2>1. CallerNext = [Caller EXCEPT !.pc = next, !.node = FALSE]
    BY <1>0, <1>4, <1>7 DEF Resumed, Abandoned
  <2>2. n = 2
    BY <1>4, <1>7
  <2> HIDE DEF n
  <2>3. next = 3 /\ next \in 1..8
    BY <2>2
  <2> HIDE DEF next
  <2>4. /\ CallerNext \in Frame /\ CallerNext.method = Caller.method /\ CallerNext.pc = next
        /\ CallerNext.node = FALSE /\ CallerNext.last = Caller.last
           /\ CallerNext.stuck = Caller.stuck
    BY <1>1, <2>1, <2>3 DEF Frame
  <2> QED  BY <1>1, <1>2, <1>3, <1>7, <2>3, <2>4
<1>8. CASE Asked = "repeat"
  <2>1. CallerNext = [Caller EXCEPT !.node = TRUE]
    BY <1>0, <1>8 DEF Resumed
  <2> QED  BY <1>1, <1>2, <1>3, <1>8, <2>1 DEF Frame
<1>9. CASE Asked \in {"program", "block"}
  <2>1. CallerNext = Caller
    BY <1>0, <1>9 DEF Resumed
  <2> QED  BY <1>1, <1>2, <1>3, <1>9, <2>1 DEF Frame
<1>10. CASE Asked = "blockItem"
  <2>1. CallerNext = [Caller EXCEPT !.pc = 1]
    BY <1>0, <1>10 DEF Resumed
  <2> QED  BY <1>1, <1>2, <1>3, <1>10, <2>1 DEF Frame
<1>11. CASE Asked \in {"call", "unless", "optional"} \/ (Asked = "need" /\ Top.node)
  <2>1. CallerNext = [Caller EXCEPT !.pc = @ + 1]
    BY <1>0, <1>11 DEF Resumed
  <2> QED  BY <1>1, <1>2, <1>3, <1>5, <1>11, <2>1 DEF Frame
<1> QED  BY <1>2, <1>6, <1>7, <1>8, <1>9, <1>10, <1>11 DEF Waits, Calls, Caller, Asked, CallerNext

LEMMA Returning ==
    ASSUME ReaderOK, StackOK, Return
    PROVE  StackNext
<1> DEFINE c == Caller
           do == Asked
           h == CallerNext
           below == Below
           s == Entered("synchronize", position)
<1>1. stack # <<>> /\ Finished /\ Len(stack) > 1 /\ Stays
      /\ stack' = IF do \in {"program", "blockItem"} /\ ~Top.node THEN Append(below, s) ELSE below
  BY DEF Return, Below, CallerNext, Asked, Caller
<1>2. ReaderOK' /\ Onward /\ position' = position /\ errors' = errors /\ current' = current
  BY <1>1, StaysOnward
<1>3. /\ c \in Frame /\ FrameOK(c, position, errors) /\ WaitsFor(c, Top, position, current)
      /\ c.pc <= Len(Method[c.method]) /\ Sound(c.method, c.pc, Method[c.method][c.pc])
      /\ do \in Waits /\ h \in Frame /\ h.method = c.method
      /\ do \in {"program", "block", "repeat"} => h.pc = c.pc
      /\ do = "blockItem" => h.pc = 1
      /\ (do = "need" /\ ~Top.node) => (h.pc = 3 /\ ~h.node)
      /\ do \in {"pass", "operand", "call", "unless", "optional"} \/ (do = "need" /\ Top.node)
         => h.pc = c.pc + 1
      /\ h.last = c.last /\ h.stuck = c.stuck /\ h.node \in BOOLEAN
      /\ ~h.node => (~c.node \/ ~Top.node)
  BY <1>1, Resuming
<1>0. c = stack[Len(stack) - 1] /\ do = Method[c.method][c.pc].do
  BY DEF Caller, Asked
<1> HIDE DEF c, do, h, s, below
<1>4. Top \in Frame /\ FrameOK(Top, position, errors) /\ Top.pc = Len(Method[Top.method]) + 1
      /\ Len(stack) \in Nat /\ stack \in Seq(Frame)
  BY <1>1, TopFacts
<1>5. c.method \notin {"declaration", "statement", "synchronize"}
      /\ (c.method = "program" => do = "program")
      /\ (c.method = "exprStatement" => do = "need" /\ c.pc = 1)
      /\ (c.method = "block" /\ c.pc = 1 => do = "block")
         /\ (c.method = "block" /\ c.pc = 2 => do = "blockItem")
  <2> DEFINE n == Len(Method[c.method])
  <2>1. c.pc \in 1..8 /\ c.pc <= n /\ (c.method \in {"synchronize", "exprStatement"} => n = 2)
    BY <1>3, FrameFields
  <2> HIDE DEF n
  <2>2. c.method \in {"synchronize", "exprStatement"} => c.pc = 1 \/ c.pc = 2
    BY <2>1
  <2> QED  BY <1>0, <1>3, <2>2 DEF Sound, Waits, Calls
<1>6. FrameOK(h, position', errors')
  <2>1. ~Top.node => errors > 0
    BY <1>4 DEF FrameOK
  <2>2. h.pc <= Len(Method[h.method]) + 1
    <3> DEFINE n == Len(Method[c.method])
    <3>1. c.pc \in 1..8 /\ n \in 1..7 /\ (do = "need" => c.method = "exprStatement")
          /\ (c.method = "exprStatement" => n = 2) /\ c.pc <= n
      BY <1>0, <1>3, FrameFields DEF Sound
    <3>2. h.pc = c.pc \/ h.pc = 1 \/ h.pc = c.pc + 1 \/ (do = "need" /\ h.pc = 3)
      BY <1>3 DEF Waits, Calls
    <3> HIDE DEF n
    <3>3. h.pc <= n + 1
      BY <3>1, <3>2
    <3> QED  BY <1>3, <3>3 DEF n
  <2> QED  BY <1>2, <1>3, <1>5, <2>1, <2>2 DEF FrameOK
<1>7. ASSUME NEW u \in Frame, WaitsFor(u, c, position, current)
             PROVE WaitsFor(u, h, position', current')
  <2>1. ~(u.method = "block" /\ u.pc = 1)
    BY <1>5, <1>7 DEF WaitsFor
  <2>2. ASSUME u.method = "block", u.pc = 2
        PROVE  Moved(u, position, current) \/ (h.method = "exprStatement" /\ (h.pc = 3 => ~h.node))
    BY <1>3, <1>5, <1>7, <2>2 DEF WaitsFor
  <2> QED  BY <1>2, <1>7, <2>1, <2>2 DEF WaitsFor
<1>8. Len(stack) = 2 => h.pc = stack[1].pc
  <2>1. Len(stack) = 2 => c = stack[1] /\ stack[1].method = "program"
    BY <1>0, <1>1 DEF StackOK, StackIs
  <2> QED  BY <1>3, <1>5, <2>1
<1>9. Len(stack) > 2 => stack[Len(stack) - 2] \in Frame
  BY <1>4
<1>10. Len(stack) > 2 => (WaitsFor(stack[Len(stack) - 2], stack[Len(stack) - 1], position, current)
                          => WaitsFor(stack[Len(stack) - 2], h, position', current'))
  BY <1>0, <1>7, <1>9
<1>11. /\ stack' = below /\ TopOK(h, position', current') => StackNext
       /\ \A g \in Frame : stack' = Append(below, g) /\ FrameOK(g, position', errors')
                              /\ TopOK(g, position', current')
                                 /\ WaitsFor(h, g, position', current')
                           => StackNext
  BY <1>0, <1>1, <1>2, <1>3, <1>6, <1>8, <1>10, Popping DEF c, h, below
<1>12. CASE do \in {"program", "blockItem"} /\ ~Top.node
  <2>1. errors' > 0
    BY <1>2, <1>4, <1>12 DEF FrameOK
  <2>2. "synchronize" \in Methods
    BY MethodNames
  <2>3. s \in Frame /\ s.method = "synchronize" /\ s.pc = 1 /\ FrameOK(s, position', errors')
        /\ TopOK(s, position', current')
    BY <1>2, <2>1, <2>2, Enters DEF s
  <2>4. WaitsFor(h, s, position', current')
    <3>1. CASE do = "program"
      <4>1. h.method = "program" /\ h.pc = c.pc
        BY <1>0, <1>3, <3>1 DEF Sound
      <4> QED  BY <1>0, <1>3, <2>3, <3>1, <4>1 DEF WaitsFor
    <3>2. CASE do = "blockItem"
      <4>1. h.method = "block" /\ h.pc = 1 /\ c.method = "block"
        BY <1>0, <1>3, <3>2 DEF Sound
      <4>2. Len(Method["block"]) = 3 /\ Sound("block", 1, Method["block"][1])
        BY <1>3, <4>1, FrameFields
      <4> QED  BY <2>3, <4>1, <4>2 DEF WaitsFor, Sound, Waits
    <3> QED  BY <1>12, <3>1, <3>2
  <2> QED  BY <1>1, <1>11, <1>12, <2>3, <2>4
<1>13. CASE ~(do \in {"program", "blockItem"} /\ ~Top.node)
  <2>1. ASSUME h.method = "block", h.pc = 1 PROVE Moved(h, position', current')
    <3>1. c.method = "block" /\ (c.pc = 1 \/ c.pc = 2)
      <4>1. c.method = "block" /\ c.pc \in 1..8
        BY <1>3, <2>1, FrameFields
      <4>3. c.pc # 3
        BY <1>0, <1>3, <4>1 DEF Sound, Waits, Calls
      <4>2. Len(Method[c.method]) = 3
        BY <1>3, <4>1, FrameFields
      <4> QED  BY <1>3, <4>1, <4>2, <4>3
    <3>2. Moved(c, position, current)
      <4>1. CASE c.pc = 1
        <5>1. Top.method = "synchronize" /\ (Top.pc > 1 => Moved(c, position, current))
          BY <1>3, <3>1, <4>1 DEF WaitsFor
        <5>2. Len(Method[Top.method]) = 2
          BY <1>4, <5>1, FrameFields
        <5> QED  BY <1>4, <5>1, <5>2
      <4>2. CASE c.pc = 2
        <5>1. Top.node
          BY <1>5, <1>13, <3>1, <4>2
        <5>2. Top.method # "declaration"
          <6> DEFINE n == Len(Method[Top.method])
          <6>1. (Top.method = "declaration" => Top.pc = 1) /\ Top.pc = n + 1
            BY <1>4 DEF FrameOK
          <6>2. n \in 1..7
            BY <1>4, FrameFields
          <6> HIDE DEF n
          <6> QED  BY <6>1, <6>2
        <5>3. Top.method = "exprStatement" => Top.pc = 3
          <6> DEFINE n == Len(Method[Top.method])
          <6>1. (Top.method = "exprStatement" => n = 2) /\ Top.pc = n + 1
            BY <1>4, FrameFields
          <6> HIDE DEF n
          <6> QED  BY <6>1
        <5> QED  BY <1>3, <3>1, <4>2, <5>1, <5>2, <5>3 DEF WaitsFor
      <4> QED  BY <3>1, <4>1, <4>2
    <3> QED  BY <1>2, <1>3, <3>2 DEF Moved
  <2>2. TopOK(h, position', current')
    BY <2>1 DEF TopOK
  <2>3. stack' = below
    BY <1>1, <1>13
  <2> QED  BY <1>11, <2>2, <2>3
<1> QED  BY <1>12, <1>13

-----------------------------------------------------------------------------
(* Brackets: those that are open in the text and those that methods hold *)

\* Of b, in order, every bracket is held by one of h, and none is not one:
\* at[i] is how many the first i of h hold.
Holding(b, h, at) ==
    /\ at \in [0..Len(h) -> Nat] /\ at[0] = 0 /\ at[Len(h)] = Len(b)
    /\ \A i, j \in 0..Len(h) : i <= j => at[i] <= at[j]
    /\ \A i \in 1..Len(h) : IF h[i] = "none" THEN at[i] = at[i - 1]
                            ELSE at[i] = at[i - 1] + 1 /\ b[at[i]] = h[i]
Agree(b, h) == \E at : Holding(b, h, at)

Marks == Brackets \cup {"none"}

LEMMA NoneHeld == Agree(<<>>, <<>>) /\ \A b \in Seq(Brackets) : Agree(b, <<>>) => b = <<>>
<1>1. Holding(<<>>, <<>>, [i \in 0..0 |-> 0])
  BY DEF Holding
<1>2. ASSUME NEW b \in Seq(Brackets), NEW at, Holding(b, <<>>, at) PROVE b = <<>>
  BY <1>2 DEF Holding
<1> QED  BY <1>1, <1>2 DEF Agree

LEMMA AppendNone ==
    ASSUME NEW b \in Seq(Brackets), NEW h \in Seq(Marks)
    PROVE  Agree(b, Append(h, "none")) <=> Agree(b, h)
<1> DEFINE n == Len(h)
           g == Append(h, "none")
<1>1. n \in Nat /\ Len(g) = n + 1 /\ g[n + 1] = "none" /\ \A i \in 1..n : g[i] = h[i]
  BY AppendProperties DEF Marks
<1> HIDE DEF g
<1>2. ASSUME NEW at, Holding(b, g, at) PROVE Agree(b, h)
  <2> DEFINE to == [i \in 0..n |-> at[i]]
  <2>1. /\ at \in [0..(n + 1) -> Nat] /\ at[0] = 0 /\ at[n + 1] = Len(b)
        /\ \A i, j \in 0..(n + 1) : i <= j => at[i] <= at[j]
        /\ \A i \in 1..(n + 1) : IF g[i] = "none" THEN at[i] = at[i - 1]
                                 ELSE at[i] = at[i - 1] + 1 /\ b[at[i]] = g[i]
    BY <1>1, <1>2 DEF Holding
  <2>2. at[n] = Len(b)
    BY <1>1, <2>1
  <2> HIDE DEF n
  <2>3. to \in [0..n -> Nat] /\ to[0] = 0 /\ to[n] = Len(b) /\ \A i \in 0..n : to[i] = at[i]
    BY <1>1, <2>1, <2>2
  <2> HIDE DEF to
  <2>4. \A i, j \in 0..n : i <= j => to[i] <= to[j]
    BY <1>1, <2>1, <2>3
  <2>5. ASSUME NEW i \in 1..n PROVE IF h[i] = "none" THEN to[i] = to[i - 1]
                                    ELSE to[i] = to[i - 1] + 1 /\ b[to[i]] = h[i]
    BY <1>1, <2>1, <2>3
  <2> QED  BY <2>3, <2>4, <2>5 DEF Agree, Holding, n
<1>3. ASSUME NEW at, Holding(b, h, at) PROVE Agree(b, g)
  <2> DEFINE to == [i \in 0..(n + 1) |-> IF i = n + 1 THEN at[n] ELSE at[i]]
  <2>1. /\ at \in [0..n -> Nat] /\ at[0] = 0 /\ at[n] = Len(b)
        /\ \A i, j \in 0..n : i <= j => at[i] <= at[j]
        /\ \A i \in 1..n : IF h[i] = "none" THEN at[i] = at[i - 1]
                           ELSE at[i] = at[i - 1] + 1 /\ b[at[i]] = h[i]
    BY <1>3 DEF Holding
  <2> HIDE DEF n
  <2>2. to \in [0..(n + 1) -> Nat] /\ to[0] = 0 /\ to[n + 1] = Len(b) /\ to[n + 1] = at[n]
        /\ \A i \in 0..n : to[i] = at[i]
    BY <1>1, <2>1
  <2> HIDE DEF to
  <2>3. \A i, j \in 0..(n + 1) : i <= j => to[i] <= to[j]
    BY <1>1, <2>1, <2>2
  <2>4. ASSUME NEW i \in 1..(n + 1) PROVE IF g[i] = "none" THEN to[i] = to[i - 1]
                                          ELSE to[i] = to[i - 1] + 1 /\ b[to[i]] = g[i]
    <3>1. CASE i = n + 1
      BY <1>1, <2>1, <2>2, <3>1
    <3>2. CASE i \in 1..n
      <4>1. g[i] = h[i] /\ to[i] = at[i] /\ to[i - 1] = at[i - 1]
        BY <1>1, <2>2, <3>2
      <4> QED  BY <2>1, <3>2, <4>1
    <3> QED  BY <1>1, <3>1, <3>2
  <2>5. Holding(b, g, to)
    BY <1>1, <2>2, <2>3, <2>4 DEF Holding
  <2> QED  BY <2>5 DEF Agree
<1> QED  BY <1>2, <1>3 DEF Agree, g

LEMMA AppendHeld ==
    ASSUME NEW b \in Seq(Brackets), NEW h \in Seq(Marks), NEW x \in Brackets
    PROVE  Agree(b, Append(h, x)) <=> /\ Len(b) > 0 /\ b[Len(b)] = x
                                      /\ Agree(SubSeq(b, 1, Len(b) - 1), h)
<1> DEFINE n == Len(h)
           g == Append(h, x)
           k == Len(b)
           c == SubSeq(b, 1, k - 1)
<1>1. n \in Nat /\ Len(g) = n + 1 /\ g[n + 1] = x /\ x # "none" /\ \A i \in 1..n : g[i] = h[i]
  BY AppendProperties DEF Marks, Brackets
<1>2. k \in Nat /\ (k > 0 => Len(c) = k - 1 /\ \A i \in 1..(k - 1) : c[i] = b[i])
  <2>1. k \in Nat /\ \A i \in 1..(k - 1) : b[i] \in Brackets
    BY LenProperties
  <2> HIDE DEF k
  <2> QED  BY <2>1, SubSeqProperties
<1> HIDE DEF g, c
<1>3. ASSUME NEW at, Holding(b, g, at) PROVE k > 0 /\ b[k] = x /\ Agree(c, h)
  <2> DEFINE to == [i \in 0..n |-> at[i]]
  <2>1. /\ at \in [0..(n + 1) -> Nat] /\ at[0] = 0 /\ at[n + 1] = k
        /\ \A i, j \in 0..(n + 1) : i <= j => at[i] <= at[j]
        /\ \A i \in 1..(n + 1) : IF g[i] = "none" THEN at[i] = at[i - 1]
                                 ELSE at[i] = at[i - 1] + 1 /\ b[at[i]] = g[i]
    BY <1>1, <1>3 DEF Holding
  <2> HIDE DEF n, k
  <2>2. at[n + 1] = at[n] + 1 /\ b[at[n + 1]] = x /\ at[n] \in Nat
    BY <1>1, <2>1
  <2>3. k > 0 /\ b[k] = x /\ at[n] = k - 1
    BY <1>2, <2>1, <2>2
  <2>4. to \in [0..n -> Nat] /\ to[0] = 0 /\ to[n] = k - 1 /\ \A i \in 0..n : to[i] = at[i]
    BY <1>1, <2>1, <2>3
  <2> HIDE DEF to
  <2>5. \A i, j \in 0..n : i <= j => to[i] <= to[j]
    BY <1>1, <2>1, <2>4
  <2>6. ASSUME NEW i \in 1..n PROVE IF h[i] = "none" THEN to[i] = to[i - 1]
                                    ELSE to[i] = to[i - 1] + 1 /\ c[to[i]] = h[i]
    <3>1. IF h[i] = "none" THEN at[i] = at[i - 1] ELSE at[i] = at[i - 1] + 1 /\ b[at[i]] = h[i]
      BY <1>1, <2>1
    <3>2. to[i] = at[i] /\ to[i - 1] = at[i - 1] /\ to[i] <= k - 1 /\ to[i] \in Nat
          /\ to[i - 1] \in Nat
      BY <1>1, <2>4, <2>5
    <3>3. CASE h[i] = "none"
      BY <3>1, <3>2, <3>3
    <3>4. CASE h[i] # "none"
      <4>1. to[i] \in 1..(k - 1)
        BY <1>2, <3>1, <3>2, <3>4
      <4> QED  BY <1>2, <2>3, <3>1, <3>2, <3>4, <4>1
    <3> QED  BY <3>3, <3>4
  <2>7. Holding(c, h, to)
    BY <1>2, <2>3, <2>4, <2>5, <2>6 DEF Holding, n
  <2> QED  BY <2>3, <2>7 DEF Agree
<1>4. ASSUME k > 0, b[k] = x, NEW at, Holding(c, h, at) PROVE Agree(b, g)
  <2> DEFINE to == [i \in 0..(n + 1) |-> IF i = n + 1 THEN k ELSE at[i]]
  <2>1. /\ at \in [0..n -> Nat] /\ at[0] = 0 /\ at[n] = k - 1
        /\ \A i, j \in 0..n : i <= j => at[i] <= at[j]
        /\ \A i \in 1..n : IF h[i] = "none" THEN at[i] = at[i - 1]
                           ELSE at[i] = at[i - 1] + 1 /\ c[at[i]] = h[i]
    BY <1>2, <1>4 DEF Holding
  <2>2. \A i \in 0..n : at[i] <= k - 1
    BY <1>1, <2>1
  <2> HIDE DEF n, k
  <2>3. to \in [0..(n + 1) -> Nat] /\ to[0] = 0 /\ to[n + 1] = k /\ \A i \in 0..n : to[i] = at[i]
    BY <1>1, <1>2, <2>1
  <2> HIDE DEF to
  <2>4. \A i, j \in 0..(n + 1) : i <= j => to[i] <= to[j]
    BY <1>1, <1>2, <1>4, <2>1, <2>2, <2>3
  <2>5. ASSUME NEW i \in 1..(n + 1) PROVE IF g[i] = "none" THEN to[i] = to[i - 1]
                                          ELSE to[i] = to[i - 1] + 1 /\ b[to[i]] = g[i]
    <3>1. CASE i = n + 1
      BY <1>1, <1>2, <1>4, <2>1, <2>3, <3>1
    <3>2. CASE i \in 1..n
      <4>1. /\ g[i] = h[i] /\ to[i] = at[i] /\ to[i - 1] = at[i - 1] /\ at[i] \in Nat
               /\ at[i - 1] \in Nat
            /\ at[i] <= k - 1
            /\ IF h[i] = "none" THEN at[i] = at[i - 1] ELSE at[i] = at[i - 1] + 1 /\ c[at[i]] = h[i]
        BY <1>1, <2>1, <2>2, <2>3, <3>2
      <4>2. h[i] # "none" => c[at[i]] = b[at[i]]
        BY <1>2, <1>4, <4>1
      <4> QED  BY <4>1, <4>2
    <3> QED  BY <1>1, <3>1, <3>2
  <2>6. Holding(b, g, to)
    BY <1>1, <2>3, <2>4, <2>5 DEF Holding, k
  <2> QED  BY <2>6 DEF Agree
<1> QED  BY <1>3, <1>4 DEF Agree, g, c

LEMMA FrontOfAppend ==
    ASSUME NEW S, NEW s \in Seq(S), NEW x \in S
    PROVE  SubSeq(Append(s, x), 1, Len(s)) = s
<1> DEFINE t == Append(s, x)
           f == SubSeq(t, 1, Len(s))
<1>1. Len(s) \in Nat /\ t \in Seq(S) /\ Len(t) = Len(s) + 1 /\ \A i \in 1..Len(s) : t[i] = s[i]
      /\ t[i] \in S
  BY AppendProperties, LenProperties
<1> HIDE DEF t
<1>2. f \in Seq(S) /\ Len(f) = Len(s) /\ \A i \in 1..Len(s) : f[i] = s[i]
  BY <1>1, SubSeqProperties
<1> HIDE DEF f
<1> QED  BY <1>2, SeqEqual DEF f, t

\* What consuming the current token does to the brackets, for whoever holds them.
LEMMA ConsumedHeld ==
    ASSUME ReaderOK, NEW h \in Seq(Marks), NEW before \in Marks, NEW after \in Marks,
           Moves(current, before, after), Agree(brackets, Append(h, before))
    PROVE  Agree(OpenAfter, Append(h, after))
<1> DEFINE b == brackets
           k == Len(b)
<1>1. b \in Seq(Brackets) /\ k \in Nat
  BY DEF ReaderOK
<1>2. CASE current \in {"lparen", "lbrace"}
  <2>1. before = "none" /\ after = current /\ OpenAfter = Append(b, current) /\ current \in Brackets
    BY <1>2 DEF Moves, OpenAfter, Brackets
  <2>2. Agree(b, h)
    BY <1>1, <2>1, AppendNone
  <2> DEFINE d == Append(b, current)
  <2>3. d \in Seq(Brackets) /\ Len(d) = k + 1 /\ d[k + 1] = current /\ SubSeq(d, 1, k) = b
    BY <1>1, <2>1, AppendProperties, FrontOfAppend
  <2> HIDE DEF d, k
  <2>4. Len(d) > 0 /\ d[Len(d)] = current /\ SubSeq(d, 1, Len(d) - 1) = b
    BY <1>1, <2>3
  <2>5. Agree(d, Append(h, current))
    BY <2>1, <2>2, <2>3, <2>4, AppendHeld
  <2> QED  BY <2>1, <2>5 DEF d
<1>3. CASE current \in {"rparen", "rbrace"}
  <2> DEFINE partner == IF current = "rparen" THEN "lparen" ELSE "lbrace"
  <2>1. before = partner /\ after = "none" /\ partner \in Brackets
    BY <1>3 DEF Moves, Brackets
  <2>2. k > 0 /\ b[k] = partner /\ Agree(SubSeq(b, 1, k - 1), h)
    BY <1>1, <2>1, AppendHeld
  <2>3. OpenAfter = SubSeq(b, 1, k - 1)
    BY <1>3, <2>2 DEF OpenAfter
  <2>4. OpenAfter \in Seq(Brackets)
    BY OpenAfterType
  <2> QED  BY <2>1, <2>2, <2>3, <2>4, AppendNone
<1>4. CASE current \notin {"lparen", "lbrace", "rparen", "rbrace"}
  BY <1>4 DEF Moves, OpenAfter
<1> QED  BY <1>2, <1>3, <1>4

-----------------------------------------------------------------------------
(* The invariant is inductive *)

\* The parts of the invariant in the next state.
LEMMA Together ==
    ASSUME MethodsInv, ReaderOK', Onward, StackNext,
           incomplete' = incomplete \/ (incomplete' \in BOOLEAN /\ errors' > 0)
    PROVE  MethodsInv'
<1>1. StackOK'
  BY FramesKept DEF StackNext, StackOK, StackIs
<1>2. incomplete' \in BOOLEAN /\ NullIsReported'
  BY DEF MethodsInv, NullIsReported, Onward
<1> QED  BY <1>1, <1>2 DEF MethodsInv

LEMMA Keeping ==
    ASSUME StackOK, Onward, stack' = stack
    PROVE  StackNext
<1>1. \A i \in 1..Len(stack) : stack[i] \in Frame /\ FrameOK(stack[i], position', errors')
  BY FramesKept DEF StackOK, StackIs
<1>2. ASSUME NEW i \in 1..(Len(stack) - 1)
             PROVE WaitsFor(stack[i], stack[i + 1], position', current')
  <2>1. stack[i] \in Frame /\ stack[i + 1] \in Frame
        /\ WaitsFor(stack[i], stack[i + 1], position, current)
    BY DEF StackOK, StackIs
  <2> QED  BY <2>1, FramesKept
<1>3. stack # <<>> => TopOK(stack[Len(stack)], position', current')
  <2>1. stack # <<>> => Top \in Frame /\ TopOK(Top, position, current)
    BY TopFacts
  <2>2. \A f \in Frame : TopOK(f, position, current) => TopOK(f, position', current')
    BY FramesKept DEF TopOK
  <2> QED  BY <2>1, <2>2 DEF Top
<1> QED  BY <1>1, <1>2, <1>3, FramesKept DEF StackOK, StackNext, StackIs

\* What an action knows of the instruction that it carries out.
LEMMA Instructed ==
    ASSUME StackOK, NEW do, At(do)
    PROVE  /\ stack # <<>> /\ ~Finished /\ Instruction.do = do /\ Top \in Frame
           /\ Sound(Top.method, Top.pc, Instruction)
           /\ Top.pc <= Len(Method[Top.method])
           /\ FrameOK(Top, position, errors) /\ TopOK(Top, position, current)
BY TopFacts DEF At

LEMMA ConsumeKeeps == ASSUME MethodsInv, Consume PROVE MethodsInv'
<1>1. ReaderOK /\ StackOK /\ stack # <<>> /\ ~Finished /\ Instruction.do \in {"expect", "require"}
      /\ Advance(FALSE) /\ stack' = Stepped /\ incomplete' = incomplete
  BY DEF MethodsInv, Consume, At
<1>2. ReaderOK' /\ Onward /\ Consumed
  BY <1>1, Advances
<1>3. StackNext
  BY <1>1, <1>2, Stepping
<1> QED  BY <1>1, <1>2, <1>3, Together

LEMMA ConsumeFailsKeeps == ASSUME MethodsInv, ConsumeFails PROVE MethodsInv'
<1>1. ReaderOK /\ StackOK /\ stack # <<>> /\ ~Finished /\ Instruction.do \in {"expect", "require"}
      /\ Report /\ UNCHANGED lexerState /\ incomplete' = incomplete
      /\ stack' = IF Instruction.do = "expect" THEN Stepped ELSE Replaced(Abandoned(Top))
  BY DEF MethodsInv, ConsumeFails, At
<1>2. ReaderOK' /\ Onward /\ errors' > 0
  BY <1>1, Reports
<1>3. Instruction.do = "expect" => ~(Top.method = "exprStatement" /\ Top.pc = 2)
  BY <1>1, TopFacts DEF Sound
<1>4. CASE Instruction.do = "expect"
  <2>1. StackNext
    BY <1>1, <1>2, <1>3, <1>4, Stepping
  <2> QED  BY <1>1, <1>2, <2>1, Together
<1>5. CASE Instruction.do = "require"
  <2>1. StackNext
    BY <1>1, <1>2, <1>5, Abandoning
  <2> QED  BY <1>1, <1>2, <2>1, Together
<1> QED  BY <1>1, <1>4, <1>5

LEMMA CallMethodKeeps == ASSUME MethodsInv, CallMethod PROVE MethodsInv'
<1>1. ReaderOK /\ StackOK /\ stack # <<>> /\ ~Finished
      /\ Instruction.do \in {"call", "need", "pass", "unless"}
      /\ Stays /\ stack' = Calling(Instruction.method) /\ incomplete' = incomplete
  BY DEF MethodsInv, CallMethod, At
<1>2. ReaderOK' /\ Onward
  BY <1>1, StaysOnward
<1>3. Instruction.method \in Methods /\ Instruction.method # "synchronize"
  BY <1>1, TopFacts, MethodNames DEF Sound, Calls
<1>4. StackNext
  BY <1>1, <1>2, <1>3, Called DEF Waits, Calls
<1> QED  BY <1>1, <1>2, <1>4, Together

LEMMA MatchKeeps == ASSUME MethodsInv, Match PROVE MethodsInv'
<1>1. ReaderOK /\ StackOK /\ stack # <<>> /\ ~Finished /\ Instruction.do \in {"optional", "repeat"}
      /\ Advance(FALSE) /\ stack' = Calling(Instruction.method) /\ incomplete' = incomplete
  BY DEF MethodsInv, Match, At
<1>2. ReaderOK' /\ Onward
  BY <1>1, Advances
<1>3. Instruction.method \in Methods /\ Instruction.method # "synchronize"
  BY <1>1, TopFacts, MethodNames DEF Sound, Calls
<1>4. StackNext
  BY <1>1, <1>2, <1>3, Called DEF Waits, Calls
<1> QED  BY <1>1, <1>2, <1>4, Together

LEMMA NoMatchKeeps == ASSUME MethodsInv, NoMatch PROVE MethodsInv'
<1>1. ReaderOK /\ StackOK /\ stack # <<>> /\ ~Finished
      /\ Instruction.do \in {"optional", "repeat", "unless"}
      /\ Stays /\ stack' = Stepped /\ incomplete' = incomplete
  BY DEF MethodsInv, NoMatch, At
<1>2. ReaderOK' /\ Onward
  BY <1>1, StaysOnward
<1>3. ~(Top.method = "exprStatement" /\ Top.pc = 2)
  BY <1>1, TopFacts DEF Sound
<1>4. StackNext
  BY <1>1, <1>2, <1>3, Stepping
<1> QED  BY <1>1, <1>2, <1>4, Together

LEMMA ReturnKeeps == ASSUME MethodsInv, Return PROVE MethodsInv'
<1>1. ReaderOK /\ StackOK /\ NullIsReported /\ incomplete \in BOOLEAN
  BY DEF MethodsInv
<1>2. /\ stack # <<>> /\ Finished /\ Len(stack) > 1 /\ Stays
      /\ incomplete' = (incomplete \/ Hole(Caller, Asked, Top.node))
  BY DEF Return, Caller, Asked
<1>3. ReaderOK' /\ Onward /\ errors' = errors
  BY <1>1, <1>2, StaysOnward
<1>4. StackNext
  BY <1>1, Returning
<1>5. FrameOK(Caller, position, errors) /\ FrameOK(Top, position, errors)
  BY <1>1, <1>2, Resuming, TopFacts
<1>6. Hole(Caller, Asked, Top.node) => errors > 0
  BY <1>5 DEF Hole, FrameOK
<1>7. Hole(Caller, Asked, Top.node) \in BOOLEAN
  BY DEF Hole
<1>8. incomplete' = incomplete \/ (incomplete' \in BOOLEAN /\ errors' > 0)
  <2>1. CASE Hole(Caller, Asked, Top.node)
    BY <1>2, <1>3, <1>6, <2>1
  <2>2. CASE ~Hole(Caller, Asked, Top.node)
    BY <1>1, <1>2, <2>2
  <2> QED  BY <2>1, <2>2
<1> QED  BY <1>3, <1>4, <1>8, Together

LEMMA StartDeclarationKeeps == ASSUME MethodsInv, StartDeclaration PROVE MethodsInv'
<1>1. ReaderOK /\ StackOK /\ stack # <<>> /\ ~Finished /\ Instruction.do = "declaration"
      /\ Advance(FALSE) /\ incomplete' = incomplete /\ current \in DOMAIN DeclarationStarts
      /\ stack' = Replaced(Entered(DeclarationStarts[current], position'))
  BY DEF MethodsInv, StartDeclaration, At
<1>2. ReaderOK' /\ Onward /\ Consumed
  BY <1>1, Advances
<1>3. DeclarationStarts[current] \in {"import", "func", "var"}
  BY <1>1 DEF DeclarationStarts
<1>4. Top.method = "declaration" /\ DeclarationStarts[current] \in Methods
      /\ DeclarationStarts[current] # "synchronize"
  BY <1>1, <1>3, TopFacts, MethodNames DEF Sound
<1>5. StackNext
  BY <1>1, <1>2, <1>4, Starting
<1> QED  BY <1>1, <1>2, <1>5, Together

LEMMA StartStatementKeeps == ASSUME MethodsInv, StartStatement PROVE MethodsInv'
<1>1. ReaderOK /\ StackOK /\ stack # <<>> /\ ~Finished
      /\ Instruction.do \in {"declaration", "statement"}
      /\ Advance(FALSE) /\ incomplete' = incomplete /\ current \in DOMAIN StatementStarts
      /\ stack' = Replaced(Entered(StatementStarts[current], position'))
  BY DEF MethodsInv, StartStatement, At
<1>2. ReaderOK' /\ Onward /\ Consumed
  BY <1>1, Advances
<1>3. StatementStarts[current] \in {"if", "return", "while", "for", "say", "trace"}
  BY <1>1 DEF StatementStarts
<1>4. Top.method \in {"declaration", "statement"} /\ StatementStarts[current] \in Methods
      /\ StatementStarts[current] # "synchronize"
  BY <1>1, <1>3, TopFacts, MethodNames DEF Sound
<1>5. StackNext
  BY <1>1, <1>2, <1>4, Starting
<1> QED  BY <1>1, <1>2, <1>5, Together

LEMMA StartBlockKeeps == ASSUME MethodsInv, StartBlock PROVE MethodsInv'
<1>1. ReaderOK /\ StackOK /\ stack # <<>> /\ ~Finished
      /\ Instruction.do \in {"declaration", "statement"}
      /\ Advance(FALSE) /\ incomplete' = incomplete
         /\ stack' = Replaced(Entered("block", position'))
  BY DEF MethodsInv, StartBlock, At
<1>2. ReaderOK' /\ Onward /\ Consumed
  BY <1>1, Advances
<1>3. Top.method \in {"declaration", "statement"} /\ "block" \in Methods
  BY <1>1, TopFacts, MethodNames DEF Sound
<1>4. StackNext
  BY <1>1, <1>2, <1>3, Starting
<1> QED  BY <1>1, <1>2, <1>4, Together

LEMMA StartExpressionKeeps == ASSUME MethodsInv, StartExpression PROVE MethodsInv'
<1>1. ReaderOK /\ StackOK /\ stack # <<>> /\ ~Finished
      /\ Instruction.do \in {"declaration", "statement"}
      /\ Stays /\ incomplete' = incomplete /\ stack' = Replaced(Entered("exprStatement", position'))
  BY DEF MethodsInv, StartExpression, At
<1>2. ReaderOK' /\ Onward
  BY <1>1, StaysOnward
<1>3. Top.method \in {"declaration", "statement"} /\ "exprStatement" \in Methods
  BY <1>1, TopFacts, MethodNames DEF Sound
<1>4. StackNext
  BY <1>1, <1>2, <1>3, Starting
<1> QED  BY <1>1, <1>2, <1>4, Together

\* The count of the iterations without progress never gets to two.
LEMMA BlockLoopDoes ==
    ASSUME ReaderOK, StackOK, BlockLoop
    PROVE  /\ Stays /\ stack # <<>> /\ Top \in Frame /\ Top.method = "block" /\ Top.pc = 1
           /\ \E count \in 0..1 :
                 stack' = Replaced([Top EXCEPT !.pc = 2, !.last = position', !.stuck = count])
<1> DEFINE count == IF Top.last = position THEN Top.stuck + 1 ELSE 0
<1>1. At("block") /\ current # "eof" /\ (IF count > 3 THEN Advance(TRUE) ELSE Stays)
      /\ stack' = Replaced([Top EXCEPT !.pc = 2, !.last = position',
                                       !.stuck = IF count > 3 THEN 0 ELSE count])
  BY DEF BlockLoop
<1>2. stack # <<>> /\ Top \in Frame /\ Top.method = "block" /\ Top.pc = 1
      /\ TopOK(Top, position, current)
  BY <1>1, Instructed DEF Sound
<1>3. Top.stuck \in 0..4 /\ Top.last \in Int
  BY <1>2 DEF Frame
<1>4. position \in Int
  BY Bounds DEF ReaderOK
<1>5. count \in 0..1
  BY <1>1, <1>2, <1>3, <1>4 DEF TopOK, Moved
<1> HIDE DEF count
<1>6. ~(count > 3)
  BY <1>5
<1> QED  BY <1>1, <1>2, <1>5, <1>6

\* A block goes on at its instruction p.
LEMMA InBlock ==
    ASSUME ReaderOK, StackOK, Onward, stack # <<>>, Top \in Frame, Top.method = "block",
           NEW p \in 2..3, NEW last \in 0..(file.length + 1), last <= position', NEW count \in 0..1,
           stack' = Replaced([Top EXCEPT !.pc = p, !.last = last, !.stuck = count])
    PROVE  StackNext
<1> DEFINE g == [Top EXCEPT !.pc = p, !.last = last, !.stuck = count]
           u == stack[Len(stack) - 1]
<1>1. g \in Frame /\ g.method = "block" /\ g.pc = p /\ g.last = last /\ g.stuck = count
      /\ g.node = Top.node
  <2>1. p \in 1..8 /\ count \in 0..4
    OBVIOUS
  <2> QED  BY <2>1 DEF Frame
<1>2. FrameOK(Top, position', errors') /\ Len(Method["block"]) = 3
  BY TopFacts, FrameFields, FramesKept
<1> HIDE DEF g
<1>3. FrameOK(g, position', errors')
  BY <1>1, <1>2 DEF FrameOK
<1>4. TopOK(g, position', current')
  BY <1>1 DEF TopOK
<1>5. ASSUME Len(stack) > 1, WaitsFor(u, Top, position, current)
             PROVE WaitsFor(u, g, position', current')
  <2>1. u \in Frame
    BY <1>5, TopFacts
  <2>2. WaitsFor(u, Top, position', current')
    BY <1>5, <2>1, FramesKept
  <2> QED  BY <1>1, <2>2 DEF WaitsFor
<1>6. Len(stack) # 1
  BY TopFacts
<1>7. file \in Files
  BY DEF ReaderOK
<1> HIDE DEF u
<1> QED  BY <1>1, <1>3, <1>4, <1>5, <1>6, <1>7, Replacing DEF g, u

LEMMA BlockLoopKeeps == ASSUME MethodsInv, BlockLoop PROVE MethodsInv'
<1>1. ReaderOK /\ StackOK /\ incomplete' = incomplete
  BY DEF MethodsInv, BlockLoop
<1>2. /\ Stays /\ stack # <<>> /\ Top \in Frame /\ Top.method = "block"
      /\ \E count \in 0..1 :
            stack' = Replaced([Top EXCEPT !.pc = 2, !.last = position', !.stuck = count])
  BY <1>1, BlockLoopDoes
<1>3. ReaderOK' /\ Onward /\ position' = position
  BY <1>1, <1>2, StaysOnward
<1>4. file.length \in Nat /\ position' \in 1..(file.length + 1)
  BY <1>1, <1>3, Bounds DEF ReaderOK
<1>5. position' \in 0..(file.length + 1) /\ position' <= position' /\ 2 \in 2..3
  BY <1>4
<1>6. StackNext
  BY <1>1, <1>2, <1>3, <1>5, InBlock
<1> QED  BY <1>1, <1>3, <1>6, Together

LEMMA BlockEndKeeps == ASSUME MethodsInv, BlockEnd PROVE MethodsInv'
<1>1. ReaderOK /\ StackOK /\ incomplete' = incomplete /\ Stays /\ At("block")
      /\ stack' = Replaced([Top EXCEPT !.pc = 3])
  BY DEF MethodsInv, BlockEnd
<1>2. ReaderOK' /\ Onward /\ position' = position
  BY <1>1, StaysOnward
<1>3. stack # <<>> /\ Top \in Frame /\ Top.method = "block" /\ FrameOK(Top, position, errors)
  BY <1>1, Instructed DEF Sound
<1>4. Top.last \in 0..(file.length + 1) /\ Top.stuck \in 0..1 /\ Top.last <= position'
  BY <1>2, <1>3 DEF Frame, FrameOK
<1>6. stack' = Replaced([Top EXCEPT !.pc = 3, !.last = Top.last, !.stuck = Top.stuck])
  <2>1. [Top EXCEPT !.pc = 3] = [Top EXCEPT !.pc = 3, !.last = Top.last, !.stuck = Top.stuck]
    BY <1>3 DEF Frame
  <2> QED  BY <1>1, <2>1
<1>5. StackNext
  BY <1>1, <1>2, <1>3, <1>4, <1>6, 3 \in 2..3, InBlock
<1> QED  BY <1>1, <1>2, <1>5, Together

LEMMA NextDeclarationKeeps == ASSUME MethodsInv, NextDeclaration PROVE MethodsInv'
<1>1. ReaderOK /\ StackOK /\ stack # <<>> /\ ~Finished
      /\ Instruction.do \in {"program", "blockItem"}
      /\ Stays /\ stack' = Calling("declaration") /\ incomplete' = incomplete
  BY DEF MethodsInv, NextDeclaration, At
<1>2. ReaderOK' /\ Onward
  BY <1>1, StaysOnward
<1>3. StackNext
  BY <1>1, <1>2, MethodNames, Called DEF Waits
<1> QED  BY <1>1, <1>2, <1>3, Together

LEMMA GiveUpKeeps == ASSUME MethodsInv, GiveUp PROVE MethodsInv'
<1>1. ReaderOK /\ StackOK /\ stack # <<>> /\ ~Finished
      /\ Instruction.do \in {"program", "blockItem"}
      /\ Report /\ UNCHANGED lexerState /\ stack' = Stepped /\ incomplete' = incomplete
  BY DEF MethodsInv, GiveUp, At
<1>2. ReaderOK' /\ Onward /\ errors' > 0
  BY <1>1, Reports
<1>3. ReadOn(current', errors')
  BY <1>2 DEF ReadOn
<1>4. ~(Top.method = "exprStatement" /\ Top.pc = 2)
  BY <1>1, TopFacts DEF Sound
<1>5. StackNext
  BY <1>1, <1>2, <1>3, <1>4, Stepping
<1> QED  BY <1>1, <1>2, <1>5, Together

LEMMA ProgramEndKeeps == ASSUME MethodsInv, ProgramEnd PROVE MethodsInv'
<1>1. ReaderOK /\ StackOK /\ stack # <<>> /\ ~Finished /\ Instruction.do = "program"
      /\ Stays /\ stack' = Stepped /\ incomplete' = incomplete /\ current = "eof"
  BY DEF MethodsInv, ProgramEnd, At
<1>2. ReaderOK' /\ Onward /\ current' = current
  BY <1>1, StaysOnward
<1>3. ReadOn(current', errors')
  BY <1>1, <1>2 DEF ReadOn
<1>4. ~(Top.method = "exprStatement" /\ Top.pc = 2)
  BY <1>1, TopFacts DEF Sound
<1>5. StackNext
  BY <1>1, <1>2, <1>3, <1>4, Stepping
<1> QED  BY <1>1, <1>2, <1>5, Together

LEMMA ProgramReturnsKeeps == ASSUME MethodsInv, ProgramReturns PROVE MethodsInv'
<1>1. ReaderOK /\ StackOK /\ Len(stack) = 1 /\ Finished /\ Stays /\ stack' = <<>>
      /\ incomplete' = incomplete
  BY DEF MethodsInv, ProgramReturns
<1>2. ReaderOK' /\ Onward
  BY <1>1, StaysOnward
<1>3. stack # <<>>
  BY <1>1
<1>4. ReadOn(current, errors)
  <2> DEFINE n == Len(Method[Top.method])
  <2>1. Top = stack[1] /\ Top \in Frame /\ Top.pc = n + 1
    BY <1>1, <1>3, TopFacts DEF Top
  <2>2. n \in 1..7
    BY <2>1, FrameFields
  <2> HIDE DEF n
  <2>3. Top.pc > 1
    BY <2>1, <2>2
  <2> QED  BY <1>1, <1>3, <2>1, <2>3 DEF StackOK, StackIs
<1>5. StackNext
  BY <1>1, <1>2, <1>4, FramesKept DEF StackNext, StackIs
<1> QED  BY <1>1, <1>2, <1>5, Together

LEMMA SkipKeeps == ASSUME MethodsInv, Skip PROVE MethodsInv'
<1>1. ReaderOK /\ StackOK /\ stack # <<>> /\ ~Finished /\ Instruction.do = "skip"
      /\ Advance(FALSE) /\ stack' = Stepped /\ incomplete' = incomplete
  BY DEF MethodsInv, Skip, At
<1>2. ReaderOK' /\ Onward /\ Consumed
  BY <1>1, Advances
<1>3. StackNext
  BY <1>1, <1>2, Stepping
<1> QED  BY <1>1, <1>2, <1>3, Together

LEMMA ScanKeeps == ASSUME MethodsInv, Scan PROVE MethodsInv'
<1>1. ReaderOK /\ StackOK /\ Advance(FALSE) /\ stack' = stack /\ incomplete' = incomplete
  BY DEF MethodsInv, Scan
<1>2. ReaderOK' /\ Onward
  BY <1>1, Advances
<1>3. StackNext
  BY <1>1, <1>2, Keeping
<1> QED  BY <1>1, <1>2, <1>3, Together

LEMMA SynchronizedKeeps == ASSUME MethodsInv, Synchronized PROVE MethodsInv'
<1>1. ReaderOK /\ StackOK /\ stack # <<>> /\ ~Finished /\ Instruction.do = "scan"
      /\ Stays /\ stack' = Stepped /\ incomplete' = incomplete
  BY DEF MethodsInv, Synchronized, At
<1>2. ReaderOK' /\ Onward
  BY <1>1, StaysOnward
<1>3. ~(Top.method = "exprStatement" /\ Top.pc = 2)
  BY <1>1, TopFacts DEF Sound
<1>4. StackNext
  BY <1>1, <1>2, <1>3, Stepping
<1> QED  BY <1>1, <1>2, <1>4, Together

LEMMA OperandKeeps == ASSUME MethodsInv, Operand PROVE MethodsInv'
<1>1. ReaderOK /\ StackOK /\ stack # <<>> /\ ~Finished /\ Instruction.do = "operand"
      /\ Advance(FALSE) /\ stack' = Stepped /\ incomplete' = incomplete
  BY DEF MethodsInv, Operand, At
<1>2. ReaderOK' /\ Onward /\ Consumed
  BY <1>1, Advances
<1>3. StackNext
  BY <1>1, <1>2, Stepping
<1> QED  BY <1>1, <1>2, <1>3, Together

LEMMA PrefixKeeps == ASSUME MethodsInv, Prefix PROVE MethodsInv'
<1>1. ReaderOK /\ StackOK /\ stack # <<>> /\ ~Finished /\ Instruction.do = "operand"
      /\ Advance(FALSE) /\ stack' = Replaced(Entered("prefix", position'))
         /\ incomplete' = incomplete
  BY DEF MethodsInv, Prefix, At
<1>2. ReaderOK' /\ Onward /\ Consumed
  BY <1>1, Advances
<1>3. Top.method = "unary" /\ "prefix" \in Methods
  BY <1>1, TopFacts, MethodNames DEF Sound
<1>4. StackNext
  BY <1>1, <1>2, <1>3, Starting
<1> QED  BY <1>1, <1>2, <1>4, Together

LEMMA GroupKeeps == ASSUME MethodsInv, Group PROVE MethodsInv'
<1>1. ReaderOK /\ StackOK /\ stack # <<>> /\ ~Finished /\ Instruction.do = "operand"
      /\ Advance(FALSE) /\ stack' = Calling("grouping") /\ incomplete' = incomplete
  BY DEF MethodsInv, Group, At
<1>2. ReaderOK' /\ Onward
  BY <1>1, Advances
<1>3. StackNext
  BY <1>1, <1>2, MethodNames, Called DEF Waits
<1> QED  BY <1>1, <1>2, <1>3, Together

LEMMA OperandMissingKeeps == ASSUME MethodsInv, OperandMissing PROVE MethodsInv'
<1> DEFINE g == [Top EXCEPT !.pc = 2, !.node = FALSE]
           u == stack[Len(stack) - 1]
<1>1. ReaderOK /\ StackOK /\ At("operand") /\ Report /\ UNCHANGED lexerState
      /\ stack' = Replaced(g) /\ incomplete' = incomplete
  BY DEF MethodsInv, OperandMissing
<1>2. ReaderOK' /\ Onward /\ errors' > 0 /\ file \in Files
  BY <1>1, Reports DEF ReaderOK
<1>3. stack # <<>> /\ Top \in Frame /\ Top.method = "unary" /\ FrameOK(Top, position, errors)
  BY <1>1, Instructed DEF Sound
<1>4. Len(Method["unary"]) = 2 /\ FrameOK(Top, position', errors')
  BY <1>2, <1>3, FrameFields, FramesKept
<1>5. g \in Frame /\ g.method = "unary" /\ g.pc = 2 /\ g.last = Top.last /\ g.stuck = Top.stuck
  <2>1. g = [Top EXCEPT !.pc = 2, !.node = FALSE]
    OBVIOUS
  <2> HIDE DEF g
  <2>2. \A h : \A n \in 1..8, b \in BOOLEAN : h = [Top EXCEPT !.pc = n, !.node = b] =>
           h \in Frame /\ h.method = Top.method /\ h.pc = n /\ h.last = Top.last
           /\ h.stuck = Top.stuck
    BY <1>3 DEF Frame
  <2>3. 2 \in 1..8 /\ FALSE \in BOOLEAN
    OBVIOUS
  <2>4. g \in Frame /\ g.method = Top.method /\ g.pc = 2 /\ g.last = Top.last /\ g.stuck = Top.stuck
    BY <2>1, <2>2, <2>3, Zenon
  <2> QED  BY <1>3, <2>4
<1> HIDE DEF g
<1>6. FrameOK(g, position', errors') /\ TopOK(g, position', current')
  <2> DEFINE n == Len(Method["unary"])
  <2>1. n = 2
    BY <1>4
  <2> HIDE DEF n
  <2>2. g.pc <= n + 1
    BY <1>5, <2>1
  <2> QED  BY <1>2, <1>3, <1>4, <1>5, <2>2 DEF FrameOK, TopOK, n
<1>7. ASSUME Len(stack) > 1, WaitsFor(u, Top, position, current)
             PROVE WaitsFor(u, g, position', current')
  <2>1. u \in Frame
    BY <1>1, <1>3, <1>7, TopFacts
  <2>2. WaitsFor(u, Top, position', current')
    BY <1>2, <1>3, <1>7, <2>1, FramesKept
  <2> QED  BY <1>3, <1>5, <2>2 DEF WaitsFor
<1>8. Len(stack) # 1
  BY <1>1, <1>3, TopFacts
<1> HIDE DEF u
<1>9. StackNext
  BY <1>1, <1>2, <1>3, <1>5, <1>6, <1>7, <1>8, Replacing DEF u
<1> QED  BY <1>1, <1>2, <1>9, Together

LEMMA TypeKeeps == ASSUME MethodsInv, Type PROVE MethodsInv'
<1>1. ReaderOK /\ StackOK /\ stack # <<>> /\ ~Finished /\ Instruction.do = "type"
      /\ Advance(FALSE) /\ stack' = Stepped /\ incomplete' = incomplete
  BY DEF MethodsInv, Type, At
<1>2. ReaderOK' /\ Onward /\ Consumed
  BY <1>1, Advances
<1>3. StackNext
  BY <1>1, <1>2, Stepping
<1> QED  BY <1>1, <1>2, <1>3, Together

LEMMA TypeMissingKeeps == ASSUME MethodsInv, TypeMissing PROVE MethodsInv'
<1>1. ReaderOK /\ StackOK /\ stack # <<>> /\ ~Finished /\ Instruction.do = "type"
      /\ Report /\ UNCHANGED lexerState /\ stack' = Stepped /\ incomplete' = incomplete
  BY DEF MethodsInv, TypeMissing, At
<1>2. ReaderOK' /\ Onward
  BY <1>1, Reports
<1>3. ~(Top.method = "exprStatement" /\ Top.pc = 2)
  BY <1>1, TopFacts DEF Sound
<1>4. StackNext
  BY <1>1, <1>2, <1>3, Stepping
<1> QED  BY <1>1, <1>2, <1>4, Together

\* When nothing changes, or the parser has ended.
LEMMA StutterKeeps == ASSUME MethodsInv, UNCHANGED vars PROVE MethodsInv'
<1>1. ReaderOK /\ StackOK /\ Stays /\ stack' = stack /\ incomplete' = incomplete
  BY DEF MethodsInv, vars, Stays, lexerState, reports
<1>2. ReaderOK' /\ Onward
  BY <1>1, StaysOnward
<1>3. StackNext
  BY <1>1, <1>2, Keeping
<1> QED  BY <1>1, <1>2, <1>3, Together

LEMMA MethodsStep == MethodsInv /\ [Next]_vars => MethodsInv'
BY ConsumeKeeps, ConsumeFailsKeeps, CallMethodKeeps, MatchKeeps, NoMatchKeeps, ReturnKeeps,
   StartDeclarationKeeps, StartStatementKeeps, StartBlockKeeps, StartExpressionKeeps,
   BlockLoopKeeps, BlockEndKeeps, NextDeclarationKeeps, GiveUpKeeps, ProgramEndKeeps,
   ProgramReturnsKeeps, SkipKeeps, ScanKeeps, SynchronizedKeeps, OperandKeeps, PrefixKeeps,
   GroupKeeps, OperandMissingKeeps, TypeKeeps, TypeMissingKeeps, StutterKeeps
   DEF Next, Parse, Ended

LEMMA MethodsInit == Init => MethodsInv
<1> SUFFICES ASSUME Init PROVE MethodsInv
  OBVIOUS
<1> DEFINE f == [method |-> "program", pc |-> 1, node |-> TRUE, last |-> 0, stuck |-> 0]
<1>1. file \in Files /\ file.length \in Nat /\ file.length > 0 /\ file.patience \in Nat
  BY Bounds DEF Init
<1>2. ReaderOK
  <2>1. current \in file.tokens \cup {"eof"} /\ semicolon \in BOOLEAN /\ position = 1
        /\ errors = (IF current = "unknown" THEN 1 ELSE 0) /\ brackets = <<>>
    BY DEF Init
  <2>2. errors \in 0..(file.patience + 1)
    BY <1>1, <2>1
  <2>3. position \in 1..(file.length + 1) /\ position <= file.length
    BY <1>1, <2>1
  <2> QED  BY <1>1, <2>1, <2>2, <2>3 DEF ReaderOK
<1>3. "program" \in Methods /\ Len(Method["program"]) = 1
  BY MethodNames, Table DEF Tabled
<1>4. f \in Frame /\ f.method = "program" /\ f.pc = 1 /\ f.node /\ f.last = 0 /\ f.stuck = 0
  BY <1>1, <1>3 DEF Frame
<1>5. stack = <<f>> /\ position = 1
  BY DEF Init
<1> HIDE DEF f
<1>6. FrameOK(f, position, errors) /\ TopOK(f, position, current)
  BY <1>3, <1>4, <1>5 DEF FrameOK, TopOK
<1>7. StackOK
  BY <1>4, <1>5, <1>6 DEF StackOK, StackIs
<1>8. incomplete = FALSE
  BY DEF Init
<1> QED  BY <1>2, <1>7, <1>8 DEF MethodsInv, NullIsReported

\* The invariant of the methods: the parser is between two instructions of each of the
\* methods in progress, every null pointer has an error behind it, and every block that
\* goes on has moved on.
THEOREM Invariant == Spec => []MethodsInv
<1> QED  BY MethodsInit, MethodsStep, PTL DEF Spec

\* Whatever the tokens: every step leaves a well-typed state, a null pointer in the tree
\* always has an error behind it (SemanticAnalyzer.cpp:69-71), and the safety net of
\* blockStatement (Parser.cpp:235-247) is never needed.
THEOREM MethodsSoundHolds == Spec => []MethodsSound
<1>1. ASSUME MethodsInv PROVE MethodsSound
  <2>1. ReaderOK /\ StackOK /\ incomplete \in BOOLEAN /\ NullIsReported
    BY <1>1 DEF MethodsInv
  <2>2. TypeOK
    BY <2>1 DEF TypeOK, ReaderOK, StackOK, StackIs, Brackets
  <2>3. NeverStuck
    BY <2>1 DEF NeverStuck, StackOK, StackIs, FrameOK
  <2> QED  BY <2>1, <2>2, <2>3 DEF MethodsSound
<1> QED  BY <1>1, Invariant, PTL

-----------------------------------------------------------------------------
(* The brackets balance *)

Mark(f, top) == Bracket(f.method, f.pc, top)

\* What the methods hold that wait for another.
Outer(s) == [i \in 1..(Len(s) - 1) |-> Mark(s[i], FALSE)]

\* The brackets b are those that the methods of s hold.
Held(b, s) == Agree(b, Append(Outer(s), Mark(s[Len(s)], TRUE)))

\* As long as there is no error the open brackets are those the methods hold.
Balanced == errors = 0 => IF stack = <<>> THEN brackets = <<>> ELSE Held(brackets, stack)

LEMMA BracketMarks == \A m, p, t : Bracket(m, p, t) \in Marks
BY DEF Bracket, Marks, Brackets

LEMMA FunctionIsSeq ==
    ASSUME NEW S, NEW n \in Nat, NEW f \in [1..n -> S]
    PROVE  f \in Seq(S) /\ Len(f) = n
OBVIOUS

LEMMA OuterMarks ==
    ASSUME NEW s, NEW n \in Nat, Len(s) = n + 1
    PROVE  Outer(s) \in Seq(Marks) /\ Len(Outer(s)) = n
           /\ \A i \in 1..n : Outer(s)[i] = Mark(s[i], FALSE)
<1> DEFINE f == [i \in 1..n |-> Mark(s[i], FALSE)]
<1>1. f \in [1..n -> Marks] /\ \A i \in 1..n : f[i] = Mark(s[i], FALSE)
  BY BracketMarks DEF Mark
<1>2. Outer(s) = f
  <2>1. Len(s) - 1 = n
    OBVIOUS
  <2> QED  BY <2>1 DEF Outer
<1> HIDE DEF f
<1> QED  BY <1>1, <1>2, FunctionIsSeq

\* The innermost method of s is replaced by g, or calls g.
LEMMA OuterReplaced ==
    ASSUME StackOK, stack # <<>>, NEW g \in Frame, stack' = Replaced(g)
    PROVE  stack' # <<>> /\ Outer(stack') = Outer(stack) /\ stack'[Len(stack')] = g
<1>1. stack \in Seq(Frame) /\ Len(stack) \in Nat /\ Len(stack) > 0
  BY TopFacts
<1>2. Len(stack') = Len(stack)
      /\ \A i \in 1..Len(stack) : stack'[i] = IF i = Len(stack) THEN g ELSE stack[i]
  BY <1>1 DEF Replaced
<1> DEFINE n == Len(stack) - 1
<1>3. n \in Nat /\ Len(stack) = n + 1 /\ Len(stack') = n + 1 /\ \A i \in 1..n : stack'[i] = stack[i]
  BY <1>1, <1>2
<1> HIDE DEF n
<1>4. Outer(stack') \in Seq(Marks) /\ Len(Outer(stack')) = n
      /\ \A i \in 1..n : Outer(stack')[i] = Mark(stack'[i], FALSE)
  BY <1>3, OuterMarks
<1>5. Outer(stack) \in Seq(Marks) /\ Len(Outer(stack)) = n
      /\ \A i \in 1..n : Outer(stack)[i] = Mark(stack[i], FALSE)
  BY <1>3, OuterMarks
<1>6. \A i \in 1..n : Outer(stack')[i] = Outer(stack)[i]
  BY <1>3, <1>4, <1>5
<1>7. Outer(stack') = Outer(stack)
  BY <1>4, <1>5, <1>6, SeqEqual
<1> QED  BY <1>1, <1>2, <1>7

\* A sequence of marks and one more mark.
LEMMA MarksAppended ==
    ASSUME NEW n \in Nat, NEW o \in Seq(Marks), Len(o) = n, NEW m \in Marks,
           NEW w \in Seq(Marks), Len(w) = n + 1, \A i \in 1..n : w[i] = o[i], w[n + 1] = m
    PROVE  w = Append(o, m)
<1> DEFINE v == Append(o, m)
<1>1. v \in Seq(Marks) /\ Len(v) = n + 1 /\ v[n + 1] = m /\ \A i \in 1..n : v[i] = o[i]
  BY AppendProperties
<1> HIDE DEF v
<1>2. ASSUME NEW i \in 1..Len(w) PROVE w[i] = v[i]
  BY <1>1
<1>3. w = v
  BY <1>1, <1>2, SeqEqual
<1> QED  BY <1>3 DEF v

LEMMA OuterPushed ==
    ASSUME StackOK, stack # <<>>, NEW g \in Frame, stack' = Append(stack, g)
    PROVE  stack' # <<>> /\ stack'[Len(stack')] = g
           /\ Outer(stack') = Append(Outer(stack), Mark(Top, FALSE))
<1> DEFINE n == Len(stack) - 1
<1>1. stack \in Seq(Frame) /\ n \in Nat /\ Len(stack) = n + 1
  BY TopFacts
<1>2. Len(stack') = Len(stack) + 1 /\ stack'[Len(stack) + 1] = g /\ stack' # <<>>
      /\ \A i \in 1..Len(stack) : stack'[i] = stack[i]
  BY <1>1, AppendProperties
<1> HIDE DEF n
<1>3. n + 1 \in Nat /\ Len(stack') = (n + 1) + 1
  BY <1>1, <1>2
<1>4. Outer(stack) \in Seq(Marks) /\ Len(Outer(stack)) = n
      /\ \A i \in 1..n : Outer(stack)[i] = Mark(stack[i], FALSE)
  BY <1>1, OuterMarks
<1>5. Outer(stack') \in Seq(Marks) /\ Len(Outer(stack')) = n + 1
      /\ \A i \in 1..(n + 1) : Outer(stack')[i] = Mark(stack'[i], FALSE)
  BY <1>3, OuterMarks
<1>6. Mark(Top, FALSE) \in Marks /\ Outer(stack')[n + 1] = Mark(Top, FALSE)
      /\ \A i \in 1..n : Outer(stack')[i] = Outer(stack)[i]
  <2>1. n + 1 \in 1..(n + 1) /\ stack'[n + 1] = Top
    BY <1>1, <1>2 DEF Top
  <2>2. Mark(Top, FALSE) \in Marks
    BY BracketMarks DEF Mark
  <2>3. Outer(stack')[n + 1] = Mark(Top, FALSE)
    BY <1>5, <2>1
  <2>4. ASSUME NEW i \in 1..n PROVE Outer(stack')[i] = Outer(stack)[i]
    <3>1. i \in 1..(n + 1) /\ stack'[i] = stack[i]
      BY <1>1, <1>2
    <3>2. Outer(stack)[i] = Mark(stack[i], FALSE) /\ Outer(stack')[i] = Mark(stack'[i], FALSE)
      BY <1>4, <1>5, <3>1
    <3> QED  BY <3>1, <3>2
  <2> QED  BY <2>2, <2>3, <2>4
<1>7. Outer(stack') = Append(Outer(stack), Mark(Top, FALSE))
  BY <1>1, <1>4, <1>5, <1>6, MarksAppended
<1> QED  BY <1>2, <1>7

LEMMA OuterPopped ==
    ASSUME ReaderOK, StackOK, Stays, stack # <<>>, Finished, Len(stack) > 1, stack' = Below
    PROVE  stack' # <<>> /\ stack'[Len(stack')] = CallerNext
           /\ Outer(stack) = Append(Outer(stack'), Mark(Caller, FALSE))
           /\ Outer(stack') \in Seq(Marks)
<1> DEFINE k == Len(stack) - 2
           u == SubSeq(stack, 1, k + 1)
<1>1. stack \in Seq(Frame) /\ k \in Nat /\ Len(stack) = (k + 1) + 1 /\ k + 1 \in Nat
      /\ CallerNext \in Frame
      /\ Len(stack) - 1 = k + 1
  BY TopFacts, Resuming
<1>2. stack' = [u EXCEPT ![k + 1] = CallerNext] /\ Caller = stack[k + 1]
  BY <1>1 DEF Below, Caller
<1> HIDE DEF k
<1>3. u \in Seq(Frame) /\ Len(u) = k + 1 /\ \A i \in 1..(k + 1) : u[i] = stack[i]
  BY <1>1, SubSeqProperties
<1> HIDE DEF u
<1>4. Len(stack') = k + 1
      /\ \A i \in 1..(k + 1) : stack'[i] = IF i = k + 1 THEN CallerNext ELSE stack[i]
  BY <1>1, <1>2, <1>3
<1>5. Outer(stack) \in Seq(Marks) /\ Len(Outer(stack)) = k + 1
      /\ \A i \in 1..(k + 1) : Outer(stack)[i] = Mark(stack[i], FALSE)
  BY <1>1, OuterMarks
<1>6. Outer(stack') \in Seq(Marks) /\ Len(Outer(stack')) = k
      /\ \A i \in 1..k : Outer(stack')[i] = Mark(stack'[i], FALSE)
  BY <1>1, <1>4, OuterMarks
<1>7. Mark(Caller, FALSE) \in Marks /\ Outer(stack)[k + 1] = Mark(Caller, FALSE)
      /\ \A i \in 1..k : Outer(stack)[i] = Outer(stack')[i]
  <2>1. k + 1 \in 1..(k + 1)
    BY <1>1
  <2>2. Mark(Caller, FALSE) \in Marks
    BY BracketMarks DEF Mark
  <2>3. Outer(stack)[k + 1] = Mark(Caller, FALSE)
    BY <1>2, <1>5, <2>1
  <2>4. ASSUME NEW i \in 1..k PROVE Outer(stack)[i] = Outer(stack')[i]
    <3>1. i \in 1..(k + 1) /\ stack'[i] = stack[i]
      BY <1>1, <1>4
    <3>2. Outer(stack)[i] = Mark(stack[i], FALSE) /\ Outer(stack')[i] = Mark(stack'[i], FALSE)
      BY <1>5, <1>6, <3>1
    <3> QED  BY <3>1, <3>2
  <2> QED  BY <2>2, <2>3, <2>4
<1>8. Outer(stack) = Append(Outer(stack'), Mark(Caller, FALSE))
  BY <1>1, <1>5, <1>6, <1>7, MarksAppended
<1>9. stack' # <<>> /\ stack'[Len(stack')] = CallerNext
  BY <1>1, <1>4
<1> QED  BY <1>6, <1>8, <1>9

LEMMA AreMarks ==
    ASSUME StackOK, stack # <<>>
    PROVE  Outer(stack) \in Seq(Marks) /\ \A f, t : Mark(f, t) \in Marks
<1> DEFINE n == Len(stack) - 1
<1>1. n \in Nat /\ Len(stack) = n + 1
  BY TopFacts
<1> HIDE DEF n
<1> QED  BY <1>1, OuterMarks, BracketMarks DEF Mark

\* What the innermost method holds, before and after a step that replaces it by g.
LEMMA ReplacedBalanced ==
    ASSUME StackOK, stack # <<>>, NEW g \in Frame, stack' = Replaced(g), errors' = 0,
           \/ Held(brackets', stack) /\ Mark(g, TRUE) = Mark(Top, TRUE)
           \/ Agree(brackets', Append(Outer(stack), Mark(g, TRUE)))
    PROVE  Balanced'
<1>1. stack' # <<>> /\ Outer(stack') = Outer(stack) /\ stack'[Len(stack')] = g
  BY OuterReplaced
<1>2. Agree(brackets', Append(Outer(stack), Mark(g, TRUE)))
  BY DEF Held, Top
<1>3. Held(brackets', stack')
  BY <1>1, <1>2 DEF Held
<1> QED  BY <1>1, <1>3 DEF Balanced, Held

\* The current token is consumed, and g takes the place of the innermost method.
LEMMA ConsumedBalanced ==
    ASSUME ReaderOK, StackOK, Balanced, Advance(FALSE), stack # <<>>, NEW g \in Frame,
           stack' = Replaced(g),
           Moves(current, Mark(Top, TRUE), Mark(g, TRUE))
    PROVE  Balanced'
<1>1. CASE errors' = 0
  <2>1. errors = 0 /\ brackets' = OpenAfter
    BY <1>1, Advances
  <2>2. Agree(brackets, Append(Outer(stack), Mark(Top, TRUE)))
    BY <2>1 DEF Balanced, Held, Top
  <2>3. Outer(stack) \in Seq(Marks) /\ Mark(Top, TRUE) \in Marks /\ Mark(g, TRUE) \in Marks
    BY AreMarks
  <2>4. Agree(OpenAfter, Append(Outer(stack), Mark(g, TRUE)))
    BY <2>2, <2>3, ConsumedHeld
  <2> QED  BY <1>1, <2>1, <2>4, ReplacedBalanced
<1>2. CASE errors' # 0
  BY <1>2 DEF Balanced
<1> QED  BY <1>1, <1>2

\* The innermost method is replaced by g, at the same token.
LEMMA StayedBalanced ==
    ASSUME ReaderOK, StackOK, Balanced, Stays, stack # <<>>, NEW g \in Frame, stack' = Replaced(g),
           Mark(Top, TRUE) = Mark(g, TRUE)
    PROVE  Balanced'
<1>1. CASE errors' = 0
  <2>1. errors = 0 /\ brackets' = brackets
    BY <1>1, StaysOnward
  <2>2. Held(brackets', stack)
    BY <2>1 DEF Balanced
  <2> QED  BY <1>1, <2>2, ReplacedBalanced
<1>2. CASE errors' # 0
  BY <1>2 DEF Balanced
<1> QED  BY <1>1, <1>2

\* A method other than a function's body is called, at the same token or after it.
LEMMA CalledBalanced ==
    ASSUME ReaderOK, StackOK, Balanced, stack # <<>>, NEW g \in Frame, stack' = Append(stack, g),
           Mark(Top, TRUE) = Mark(Top, FALSE),
           \/ Stays /\ Mark(g, TRUE) = "none"
           \/ Advance(FALSE) /\ Moves(current, "none", Mark(g, TRUE))
    PROVE  Balanced'
<1> DEFINE h == Append(Outer(stack), Mark(Top, FALSE))
<1>1. CASE errors' = 0
  <2>1. errors = 0
    BY <1>1, StaysOnward, Advances
  <2>2. Agree(brackets, h)
    BY <2>1 DEF Balanced, Held, Top
  <2>3. h \in Seq(Marks) /\ Mark(g, TRUE) \in Marks /\ "none" \in Marks
    <3>1. Outer(stack) \in Seq(Marks) /\ Mark(Top, FALSE) \in Marks
      BY AreMarks
    <3> QED  BY <3>1, AppendProperties, BracketMarks DEF Mark, Marks
  <2>4. stack' # <<>> /\ stack'[Len(stack')] = g /\ Outer(stack') = h
    BY OuterPushed
  <2> HIDE DEF h
  <2>5. brackets \in Seq(Brackets)
    BY DEF ReaderOK
  <2>6. Agree(brackets, Append(h, "none"))
    BY <2>2, <2>3, <2>5, AppendNone
  <2>7. Agree(brackets', Append(h, Mark(g, TRUE)))
    <3>1. CASE Stays /\ Mark(g, TRUE) = "none"
      BY <2>6, <3>1, StaysOnward
    <3>2. CASE Advance(FALSE) /\ Moves(current, "none", Mark(g, TRUE))
      <4>1. brackets' = OpenAfter
        BY <1>1, <3>2, Advances
      <4> QED  BY <2>3, <2>6, <3>2, <4>1, ConsumedHeld
    <3> QED  BY <3>1, <3>2
  <2>8. Held(brackets', stack')
    BY <2>4, <2>7 DEF Held
  <2> QED  BY <1>1, <2>4, <2>8 DEF Balanced, Held
<1>2. CASE errors' # 0
  BY <1>2 DEF Balanced
<1> QED  BY <1>1, <1>2

\* An instruction's bracket is the same whether or not it waits, but for a body's.
LEMMA SameMark ==
    \A m, p : ~(m = "func" /\ p = 7) => Bracket(m, p, TRUE) = Bracket(m, p, FALSE)
BY DEF Bracket

LEMMA FirstMark ==
    ASSUME NEW m, NEW at
    PROVE  Mark(Entered(m, at), TRUE) = IF m \in {"args", "grouping"} THEN "lparen"
                                        ELSE IF m = "block" THEN "lbrace" ELSE "none"
<1>1. Entered(m, at).method = m /\ Entered(m, at).pc = 1
  BY DEF Entered
<1> QED  BY <1>1 DEF Mark, Bracket

LEMMA LastMark ==
    ASSUME StackOK, stack # <<>>, Finished
    PROVE  Mark(Top, TRUE) = "none"
<1>1. Top \in Frame /\ Top.pc = Len(Method[Top.method]) + 1
  BY TopFacts
<1>2. Tabled(Top.method)
  BY <1>1, FrameFields, Table
<1> QED  BY <1>1, <1>2 DEF Tabled, Mark

LEMMA ErrorBalanced == ASSUME errors' > 0 PROVE Balanced'
BY DEF Balanced

\* The innermost method goes on with its next instruction.
LEMMA SteppedBalanced ==
    ASSUME ReaderOK, StackOK, Balanced, stack # <<>>, ~Finished, stack' = Stepped,
           \/ Stays /\ Mark(Top, TRUE) = Bracket(Top.method, Top.pc + 1, TRUE)
           \/ Advance(FALSE) /\ Moves(current, Mark(Top, TRUE),
              Bracket(Top.method, Top.pc + 1, TRUE))
    PROVE  Balanced'
<1> DEFINE g == [Top EXCEPT !.pc = @ + 1]
<1>1. Top \in Frame /\ Top.pc <= Len(Method[Top.method])
  BY TopFacts
<1>2. Len(Method[Top.method]) \in 1..7 /\ Top.pc \in 1..8
  BY <1>1, FrameFields
<1>3. Top.pc + 1 \in 1..8
  <2> DEFINE n == Len(Method[Top.method])
  <2>1. n \in 1..7 /\ Top.pc <= n
    BY <1>1, <1>2
  <2> HIDE DEF n
  <2> QED  BY <1>2, <2>1
<1>4. g \in Frame /\ g.method = Top.method /\ g.pc = Top.pc + 1
  BY <1>1, <1>3 DEF Frame
<1>5. stack' = Replaced(g)
  BY DEF Stepped
<1> HIDE DEF g
<1>6. Mark(g, TRUE) = Bracket(Top.method, Top.pc + 1, TRUE)
  BY <1>4 DEF Mark
<1> QED  BY <1>4, <1>5, <1>6, StayedBalanced, ConsumedBalanced

\* Another method takes its place.
LEMMA StartedBalanced ==
    ASSUME ReaderOK, StackOK, Balanced, stack # <<>>, NEW m \in Methods, m # "synchronize",
           stack' = Replaced(Entered(m, position')),
           \/ Stays /\ Mark(Top, TRUE) = Mark(Entered(m, position'), TRUE)
           \/ Advance(FALSE) /\ Moves(current, Mark(Top, TRUE), Mark(Entered(m, position'), TRUE))
    PROVE  Balanced'
<1> DEFINE g == Entered(m, position')
<1>1. ReaderOK' /\ Onward
  BY Advances, StaysOnward
<1>2. g \in Frame
  BY <1>1, Enters
<1>3. stack' = Replaced(g)
  OBVIOUS
<1>4. \/ Stays /\ Mark(Top, TRUE) = Mark(g, TRUE)
      \/ Advance(FALSE) /\ Moves(current, Mark(Top, TRUE), Mark(g, TRUE))
  OBVIOUS
<1> HIDE DEF g
<1> QED  BY <1>2, <1>3, <1>4, StayedBalanced, ConsumedBalanced

\* It calls another method.
LEMMA EnteredBalanced ==
    ASSUME ReaderOK, StackOK, Balanced, stack # <<>>, NEW m \in Methods, m # "synchronize",
           stack' = Calling(m), Mark(Top, TRUE) = Mark(Top, FALSE),
           \/ Stays /\ Mark(Entered(m, position'), TRUE) = "none"
           \/ Advance(FALSE) /\ Moves(current, "none", Mark(Entered(m, position'), TRUE))
    PROVE  Balanced'
<1> DEFINE g == Entered(m, position')
<1>1. ReaderOK' /\ Onward
  BY Advances, StaysOnward
<1>2. g \in Frame
  BY <1>1, Enters
<1>3. stack' = Append(stack, g)
  BY DEF Calling
<1>4. \/ Stays /\ Mark(g, TRUE) = "none"
      \/ Advance(FALSE) /\ Moves(current, "none", Mark(g, TRUE))
  OBVIOUS
<1> HIDE DEF g
<1> QED  BY <1>2, <1>3, <1>4, CalledBalanced

\* A function calls its block, which takes over the brace.
LEMMA BodyBalanced ==
    ASSUME ReaderOK, StackOK, Balanced, Stays, stack # <<>>, Top.method = "func", Top.pc = 7,
           stack' = Calling("block")
    PROVE  Balanced'
<1> DEFINE g == Entered("block", position')
           o == Outer(stack)
<1>1. ReaderOK' /\ Onward /\ brackets' = brackets /\ errors' = errors
  BY StaysOnward
<1>2. g \in Frame
  BY <1>1, Enters, MethodNames
<1>3. Mark(g, TRUE) = "lbrace" /\ Mark(Top, TRUE) = "lbrace" /\ Mark(Top, FALSE) = "none"
  <2>1. Mark(g, TRUE) = "lbrace"
    BY FirstMark
  <2>2. Bracket("func", 7, TRUE) = "lbrace" /\ Bracket("func", 7, FALSE) = "none"
    BY DEF Bracket
  <2> QED  BY <2>1, <2>2 DEF Mark
<1>4. stack' = Append(stack, g)
  BY DEF Calling
<1> HIDE DEF g
<1>5. stack' # <<>> /\ stack'[Len(stack')] = g /\ Outer(stack') = Append(o, "none")
  BY <1>2, <1>3, <1>4, OuterPushed
<1>6. o \in Seq(Marks) /\ "none" \in Marks /\ "lbrace" \in Brackets
  BY AreMarks DEF Marks, Brackets
<1>7. brackets \in Seq(Brackets)
  BY DEF ReaderOK
<1>8. CASE errors = 0
  <2>1. Agree(brackets, Append(o, "lbrace"))
    BY <1>3, <1>8 DEF Balanced, Held, Top
  <2> HIDE DEF o
  <2> DEFINE front == SubSeq(brackets, 1, Len(brackets) - 1)
             h == Append(o, "none")
  <2>2. Len(brackets) > 0 /\ brackets[Len(brackets)] = "lbrace" /\ Agree(front, o)
    BY <1>6, <1>7, <2>1, AppendHeld
  <2>3. front \in Seq(Brackets)
    BY <1>7, <2>2, SubSeqProperties, LenProperties
  <2>4. h \in Seq(Marks)
    BY <1>6, AppendProperties
  <2>5. Agree(front, h)
    BY <1>6, <2>2, <2>3, AppendNone
  <2> HIDE DEF h
  <2>6. Agree(brackets, Append(h, "lbrace"))
    BY <1>6, <1>7, <2>2, <2>4, <2>5, AppendHeld
  <2>7. Outer(stack') = h /\ stack'[Len(stack')] = g
    BY <1>5 DEF h
  <2>8. Held(brackets', stack')
    BY <1>1, <1>3, <2>6, <2>7 DEF Held
  <2> QED  BY <1>5, <2>8 DEF Balanced, Held
<1>9. CASE errors # 0
  BY <1>1, <1>9 DEF Balanced
<1> QED  BY <1>8, <1>9

\* What holds before an action.
Balancing == MethodsInv /\ Balanced

LEMMA ConsumeBalanced == ASSUME Balancing, Consume PROVE Balanced'
<1>1. ReaderOK /\ StackOK /\ Balanced /\ stack # <<>> /\ ~Finished
      /\ Instruction.do \in {"expect", "require"} /\ Fits(Instruction.token)
      /\ Advance(FALSE) /\ stack' = Stepped
  BY DEF Balancing, MethodsInv, Consume, At
<1>2. Moves(Instruction.token, Mark(Top, TRUE), Bracket(Top.method, Top.pc + 1, TRUE))
  BY <1>1, TopFacts DEF Sound, Mark
<1>3. Moves(current, Mark(Top, TRUE), Bracket(Top.method, Top.pc + 1, TRUE))
  BY <1>1, <1>2 DEF Fits, Moves
<1> QED  BY <1>1, <1>3, SteppedBalanced

LEMMA CallMethodBalanced == ASSUME Balancing, CallMethod PROVE Balanced'
<1>1. ReaderOK /\ StackOK /\ Balanced /\ stack # <<>> /\ ~Finished
      /\ Instruction.do \in {"call", "need", "pass", "unless"}
      /\ Stays /\ stack' = Calling(Instruction.method)
  BY DEF Balancing, MethodsInv, CallMethod, At
<1>2. Sound(Top.method, Top.pc, Instruction)
  BY <1>1, TopFacts
<1>3. CASE Top.method = "func" /\ Top.pc = 7
  <2>1. stack' = Calling("block")
    BY <1>1, <1>2, <1>3 DEF Sound
  <2> QED  BY <1>1, <1>3, <2>1, BodyBalanced
<1>4. CASE ~(Top.method = "func" /\ Top.pc = 7)
  <2>1. Instruction.method \in Methods \ {"program", "synchronize", "block", "args", "grouping"}
    BY <1>1, <1>2, <1>4 DEF Sound, Calls
  <2>2. Mark(Entered(Instruction.method, position'), TRUE) = "none"
    BY <2>1, FirstMark
  <2>3. Mark(Top, TRUE) = Mark(Top, FALSE)
    BY <1>4, SameMark DEF Mark
  <2> QED  BY <1>1, <2>1, <2>2, <2>3, EnteredBalanced
<1> QED  BY <1>3, <1>4

LEMMA MatchBalanced == ASSUME Balancing, Match PROVE Balanced'
<1>1. ReaderOK /\ StackOK /\ Balanced /\ stack # <<>> /\ ~Finished
      /\ Instruction.do \in {"optional", "repeat"} /\ Fits(Instruction.token)
      /\ Advance(FALSE) /\ stack' = Calling(Instruction.method)
  BY DEF Balancing, MethodsInv, Match, At
<1>2. Sound(Top.method, Top.pc, Instruction)
  BY <1>1, TopFacts
<1>3. ~(Top.method = "func" /\ Top.pc = 7)
      /\ \/ Instruction.method \in Methods \ {"program", "synchronize", "block", "args", "grouping"}
         \/ Instruction.method = "args"
      /\ Instruction.token \notin {"lbrace", "rbrace", "rparen"}
      /\ (Instruction.token = "lparen" <=> Instruction.method = "args")
  BY <1>1, <1>2 DEF Sound, Calls
<1>4. Mark(Top, TRUE) = Mark(Top, FALSE)
  BY <1>3, SameMark DEF Mark
<1>5. Moves(current, "none", Mark(Entered(Instruction.method, position'), TRUE))
  BY <1>1, <1>3, FirstMark DEF Fits, Moves
<1>6. Instruction.method \in Methods /\ Instruction.method # "synchronize"
  BY <1>3, MethodNames
<1> QED  BY <1>1, <1>4, <1>5, <1>6, EnteredBalanced

LEMMA NoMatchBalanced == ASSUME Balancing, NoMatch PROVE Balanced'
<1>1. ReaderOK /\ StackOK /\ Balanced /\ stack # <<>> /\ ~Finished
      /\ Instruction.do \in {"optional", "repeat", "unless"}
      /\ Stays /\ stack' = Stepped
  BY DEF Balancing, MethodsInv, NoMatch, At
<1>2. Mark(Top, TRUE) = Bracket(Top.method, Top.pc + 1, TRUE)
  BY <1>1, TopFacts DEF Sound, Mark
<1> QED  BY <1>1, <1>2, SteppedBalanced

\* What a method held when it called is what it holds when it goes on.
LEMMA CallerHolds ==
    ASSUME ReaderOK, StackOK, Stays, stack # <<>>, Finished, Len(stack) > 1, Top.node
    PROVE  Mark(CallerNext, TRUE) = Mark(Caller, FALSE)
<1>1. /\ Caller \in Frame /\ Sound(Caller.method, Caller.pc, Method[Caller.method][Caller.pc])
      /\ Asked \in Waits /\ CallerNext.method = Caller.method
      /\ Asked \in {"program", "block", "repeat"} => CallerNext.pc = Caller.pc
      /\ Asked = "blockItem" => CallerNext.pc = 1
      /\ Asked \in {"pass", "operand", "call", "unless", "optional", "need"}
            => CallerNext.pc = Caller.pc + 1
  BY Resuming
<1>2. Asked = Method[Caller.method][Caller.pc].do
  BY DEF Asked
<1>3. CASE Asked \in {"pass", "operand", "call", "unless", "optional", "need"}
  BY <1>1, <1>2, <1>3 DEF Mark, Sound
<1>4. CASE Asked \in {"program", "block", "repeat"}
  <2>1. ~(Caller.method = "func" /\ Caller.pc = 7)
    BY <1>1, <1>2, <1>4 DEF Sound
  <2> QED  BY <1>1, <1>4, <2>1, SameMark DEF Mark
<1>5. CASE Asked = "blockItem"
  <2>1. Caller.method = "block" /\ Caller.pc = 2 /\ CallerNext.method = "block" /\ CallerNext.pc = 1
    BY <1>1, <1>2, <1>5 DEF Sound
  <2> QED  BY <2>1 DEF Mark, Bracket
<1> QED  BY <1>1, <1>3, <1>4, <1>5 DEF Waits, Calls

LEMMA ReturnBalanced == ASSUME Balancing, Return PROVE Balanced'
<1>1. ReaderOK /\ StackOK /\ Balanced /\ stack # <<>> /\ Finished /\ Len(stack) > 1 /\ Stays
      /\ stack' = IF Asked \in {"program", "blockItem"} /\ ~Top.node
                  THEN Append(Below, Entered("synchronize", position)) ELSE Below
  BY DEF Balancing, MethodsInv, Return, Caller, Asked, Below, CallerNext
<1>2. ReaderOK' /\ brackets' = brackets /\ errors' = errors
  BY <1>1, StaysOnward
<1>3. CASE errors = 0
  <2>1. Top.node
    BY <1>1, <1>3, TopFacts DEF FrameOK
  <2>2. stack' = Below
    BY <1>1, <2>1
  <2>3. stack' # <<>> /\ stack'[Len(stack')] = CallerNext
        /\ Outer(stack) = Append(Outer(stack'), Mark(Caller, FALSE)) /\ Outer(stack') \in Seq(Marks)
    BY <1>1, <2>2, OuterPopped
  <2>4. Agree(brackets, Append(Outer(stack), Mark(Top, TRUE)))
    BY <1>1, <1>3 DEF Balanced, Held, Top
  <2>5. Mark(Top, TRUE) = "none" /\ Outer(stack) \in Seq(Marks) /\ brackets \in Seq(Brackets)
    BY <1>1, LastMark, AreMarks DEF ReaderOK
  <2>6. Agree(brackets, Outer(stack))
    BY <2>4, <2>5, AppendNone
  <2>7. Mark(CallerNext, TRUE) = Mark(Caller, FALSE)
    BY <1>1, <2>1, CallerHolds
  <2>8. Held(brackets', stack')
    BY <1>2, <2>3, <2>6, <2>7 DEF Held
  <2> QED  BY <2>3, <2>8 DEF Balanced, Held
<1>4. CASE errors # 0
  BY <1>2, <1>4 DEF Balanced
<1> QED  BY <1>3, <1>4

LEMMA StartDeclarationBalanced == ASSUME Balancing, StartDeclaration PROVE Balanced'
<1>1. ReaderOK /\ StackOK /\ Balanced /\ stack # <<>> /\ At("declaration")
      /\ Advance(FALSE) /\ current \in DOMAIN DeclarationStarts
      /\ stack' = Replaced(Entered(DeclarationStarts[current], position'))
  BY DEF Balancing, MethodsInv, StartDeclaration, At
<1>2. DeclarationStarts[current] \in {"import", "func", "var"}
      /\ current \in {"import", "func", "let", "own"}
  BY <1>1 DEF DeclarationStarts
<1>3. Top.method = "declaration"
  BY <1>1, Instructed DEF Sound
<1>4. Moves(current, Mark(Top, TRUE), Mark(Entered(DeclarationStarts[current], position'), TRUE))
  BY <1>2, <1>3, FirstMark DEF Moves, Mark, Bracket
<1>5. DeclarationStarts[current] \in Methods /\ DeclarationStarts[current] # "synchronize"
  BY <1>2, MethodNames
<1> QED  BY <1>1, <1>4, <1>5, StartedBalanced

LEMMA StartStatementBalanced == ASSUME Balancing, StartStatement PROVE Balanced'
<1>1. ReaderOK /\ StackOK /\ Balanced /\ stack # <<>> /\ (At("declaration") \/ At("statement"))
      /\ Advance(FALSE) /\ current \in DOMAIN StatementStarts
      /\ stack' = Replaced(Entered(StatementStarts[current], position'))
  BY DEF Balancing, MethodsInv, StartStatement, At
<1>2. StatementStarts[current] \in {"if", "return", "while", "for", "say", "trace"}
      /\ current \in {"if", "return", "loopwhile", "while", "for", "say", "trace"}
  BY <1>1 DEF StatementStarts
<1>3. Top.method \in {"declaration", "statement"}
  BY <1>1, Instructed DEF Sound
<1>4. Moves(current, Mark(Top, TRUE), Mark(Entered(StatementStarts[current], position'), TRUE))
  BY <1>2, <1>3, FirstMark DEF Moves, Mark, Bracket
<1>5. StatementStarts[current] \in Methods /\ StatementStarts[current] # "synchronize"
  BY <1>2, MethodNames
<1> QED  BY <1>1, <1>4, <1>5, StartedBalanced

LEMMA StartBlockBalanced == ASSUME Balancing, StartBlock PROVE Balanced'
<1>1. ReaderOK /\ StackOK /\ Balanced /\ stack # <<>> /\ (At("declaration") \/ At("statement"))
      /\ Advance(FALSE) /\ current = "lbrace" /\ stack' = Replaced(Entered("block", position'))
  BY DEF Balancing, MethodsInv, StartBlock, At
<1>2. Top.method \in {"declaration", "statement"}
  BY <1>1, Instructed DEF Sound
<1>3. Moves(current, Mark(Top, TRUE), Mark(Entered("block", position'), TRUE))
  BY <1>1, <1>2, FirstMark DEF Moves, Mark, Bracket
<1> QED  BY <1>1, <1>3, MethodNames, StartedBalanced

LEMMA StartExpressionBalanced == ASSUME Balancing, StartExpression PROVE Balanced'
<1>1. ReaderOK /\ StackOK /\ Balanced /\ stack # <<>> /\ (At("declaration") \/ At("statement"))
      /\ Stays /\ stack' = Replaced(Entered("exprStatement", position'))
  BY DEF Balancing, MethodsInv, StartExpression, At
<1>2. Top.method \in {"declaration", "statement"}
  BY <1>1, Instructed DEF Sound
<1>3. Mark(Top, TRUE) = Mark(Entered("exprStatement", position'), TRUE)
  BY <1>1, <1>2, FirstMark DEF Mark, Bracket
<1> QED  BY <1>1, <1>3, MethodNames, StartedBalanced

\* A block goes on at its instruction p, at the same token.
LEMMA InBlockBalanced ==
    ASSUME ReaderOK, StackOK, Balanced, Stays, stack # <<>>, Top.method = "block", Top.pc = 1,
           NEW p \in 2..3, NEW last \in 0..(file.length + 1), NEW count \in 0..1,
           stack' = Replaced([Top EXCEPT !.pc = p, !.last = last, !.stuck = count])
    PROVE  Balanced'
<1> DEFINE g == [Top EXCEPT !.pc = p, !.last = last, !.stuck = count]
<1>1. g \in Frame /\ g.method = "block" /\ g.pc = p
  <2>1. p \in 1..8 /\ count \in 0..4 /\ Top \in Frame
    BY TopFacts
  <2> QED  BY <2>1 DEF Frame
<1> HIDE DEF g
<1>2. Mark(Top, TRUE) = Mark(g, TRUE)
  BY <1>1 DEF Mark, Bracket
<1> QED  BY <1>1, <1>2, StayedBalanced DEF g

LEMMA BlockLoopBalanced == ASSUME Balancing, BlockLoop PROVE Balanced'
<1>1. ReaderOK /\ StackOK /\ Balanced
  BY DEF Balancing, MethodsInv
<1>2. /\ Stays /\ stack # <<>> /\ Top.method = "block" /\ Top.pc = 1
      /\ \E count \in 0..1 :
            stack' = Replaced([Top EXCEPT !.pc = 2, !.last = position', !.stuck = count])
  BY <1>1, BlockLoopDoes
<1>3. position' \in 0..(file.length + 1) /\ 2 \in 2..3
  <2>1. position' = position /\ file.length \in Nat /\ position \in 1..(file.length + 1)
    BY <1>1, <1>2, StaysOnward, Bounds DEF ReaderOK
  <2> QED  BY <2>1
<1> QED  BY <1>1, <1>2, <1>3, InBlockBalanced

LEMMA BlockEndBalanced == ASSUME Balancing, BlockEnd PROVE Balanced'
<1>1. ReaderOK /\ StackOK /\ Balanced /\ Stays /\ At("block")
      /\ stack' = Replaced([Top EXCEPT !.pc = 3])
  BY DEF Balancing, MethodsInv, BlockEnd
<1>2. stack # <<>> /\ Top \in Frame /\ Top.method = "block" /\ Top.pc = 1
      /\ FrameOK(Top, position, errors)
  BY <1>1, Instructed DEF Sound
<1>3. Top.last \in 0..(file.length + 1) /\ Top.stuck \in 0..1
  BY <1>2 DEF Frame, FrameOK
<1>4. stack' = Replaced([Top EXCEPT !.pc = 3, !.last = Top.last, !.stuck = Top.stuck])
  <2>1. [Top EXCEPT !.pc = 3] = [Top EXCEPT !.pc = 3, !.last = Top.last, !.stuck = Top.stuck]
    BY <1>2 DEF Frame
  <2> QED  BY <1>1, <2>1
<1> QED  BY <1>1, <1>2, <1>3, <1>4, 3 \in 2..3, InBlockBalanced

LEMMA NextDeclarationBalanced == ASSUME Balancing, NextDeclaration PROVE Balanced'
<1>1. ReaderOK /\ StackOK /\ Balanced /\ stack # <<>> /\ ~Finished
      /\ Instruction.do \in {"program", "blockItem"} /\ Stays /\ stack' = Calling("declaration")
  BY DEF Balancing, MethodsInv, NextDeclaration, At
<1>2. ~(Top.method = "func" /\ Top.pc = 7)
  BY <1>1, TopFacts DEF Sound
<1>3. Mark(Top, TRUE) = Mark(Top, FALSE)
  BY <1>2, SameMark DEF Mark
<1> QED  BY <1>1, <1>3, FirstMark, MethodNames, EnteredBalanced

LEMMA ProgramEndBalanced == ASSUME Balancing, ProgramEnd PROVE Balanced'
<1>1. ReaderOK /\ StackOK /\ Balanced /\ stack # <<>> /\ ~Finished
      /\ Instruction.do = "program" /\ Stays /\ stack' = Stepped
  BY DEF Balancing, MethodsInv, ProgramEnd, At
<1>2. Top.method = "program"
  BY <1>1, TopFacts DEF Sound
<1>3. Mark(Top, TRUE) = Bracket(Top.method, Top.pc + 1, TRUE)
  BY <1>2 DEF Mark, Bracket
<1> QED  BY <1>1, <1>3, SteppedBalanced

LEMMA ProgramReturnsBalanced == ASSUME Balancing, ProgramReturns PROVE Balanced'
<1>1. ReaderOK /\ StackOK /\ Balanced /\ Len(stack) = 1 /\ Finished /\ Stays /\ stack' = <<>>
  BY DEF Balancing, MethodsInv, ProgramReturns
<1>2. stack # <<>> /\ brackets' = brackets /\ errors' = errors /\ brackets \in Seq(Brackets)
  <2>1. stack # <<>>
    BY <1>1
  <2>2. brackets' = brackets /\ errors' = errors
    BY <1>1, StaysOnward
  <2> QED  BY <1>1, <2>1, <2>2 DEF ReaderOK
<1>3. Outer(stack) \in Seq(Marks) /\ Len(Outer(stack)) = 0
  <2>1. Len(stack) = 0 + 1 /\ 0 \in Nat
    BY <1>1
  <2> QED  BY <2>1, OuterMarks
<1>4. Outer(stack) = <<>>
  BY <1>3
<1>5. Mark(Top, TRUE) = "none"
  BY <1>1, <1>2, LastMark
<1>6. ASSUME errors = 0 PROVE brackets = <<>>
  <2>1. Agree(brackets, Append(Outer(stack), "none"))
    BY <1>1, <1>2, <1>5, <1>6 DEF Balanced, Held, Top
  <2>2. Agree(brackets, <<>>)
    BY <1>2, <1>3, <1>4, <2>1, AppendNone
  <2> QED  BY <1>2, <2>2, NoneHeld
<1> QED  BY <1>1, <1>2, <1>6 DEF Balanced

\* Recovery comes after an error.
LEMMA SynchronizeBalanced ==
    ASSUME Balancing, At("skip") \/ At("scan"), Advance(FALSE) \/ Stays
    PROVE  Balanced'
<1>1. ReaderOK /\ StackOK
  BY DEF Balancing, MethodsInv
<1>2. Top.method = "synchronize" /\ FrameOK(Top, position, errors)
  BY <1>1, Instructed DEF Sound
<1>3. Onward
  BY <1>1, Advances, StaysOnward
<1>4. errors' > 0
  BY <1>2, <1>3 DEF FrameOK, Onward
<1> QED  BY <1>4, ErrorBalanced

LEMMA OperandBalanced == ASSUME Balancing, Operand PROVE Balanced'
<1>1. ReaderOK /\ StackOK /\ Balanced /\ stack # <<>> /\ ~Finished /\ Instruction.do = "operand"
      /\ current \in {"literal", "ident"} /\ Advance(FALSE) /\ stack' = Stepped
  BY DEF Balancing, MethodsInv, Operand, At
<1>2. Top.method = "unary" /\ Top.pc = 1
  BY <1>1, TopFacts DEF Sound
<1>3. Moves(current, Mark(Top, TRUE), Bracket(Top.method, Top.pc + 1, TRUE))
  BY <1>1, <1>2 DEF Moves, Mark, Bracket
<1> QED  BY <1>1, <1>3, SteppedBalanced

LEMMA PrefixBalanced == ASSUME Balancing, Prefix PROVE Balanced'
<1>1. ReaderOK /\ StackOK /\ Balanced /\ stack # <<>> /\ ~Finished /\ Instruction.do = "operand"
      /\ current \in {"-", "!"} /\ Advance(FALSE) /\ stack' = Replaced(Entered("prefix", position'))
  BY DEF Balancing, MethodsInv, Prefix, At
<1>2. Top.method = "unary"
  BY <1>1, TopFacts DEF Sound
<1>3. Moves(current, Mark(Top, TRUE), Mark(Entered("prefix", position'), TRUE))
  BY <1>1, <1>2, FirstMark DEF Moves, Mark, Bracket
<1> QED  BY <1>1, <1>3, MethodNames, StartedBalanced

LEMMA GroupBalanced == ASSUME Balancing, Group PROVE Balanced'
<1>1. ReaderOK /\ StackOK /\ Balanced /\ stack # <<>> /\ ~Finished /\ Instruction.do = "operand"
      /\ current = "lparen" /\ Advance(FALSE) /\ stack' = Calling("grouping")
  BY DEF Balancing, MethodsInv, Group, At
<1>2. ~(Top.method = "func" /\ Top.pc = 7)
  BY <1>1, TopFacts DEF Sound
<1>3. Mark(Top, TRUE) = Mark(Top, FALSE)
  BY <1>2, SameMark DEF Mark
<1>4. Moves(current, "none", Mark(Entered("grouping", position'), TRUE))
  BY <1>1, FirstMark DEF Moves
<1> QED  BY <1>1, <1>3, <1>4, MethodNames, EnteredBalanced

LEMMA TypeBalanced == ASSUME Balancing, Type PROVE Balanced'
<1>1. ReaderOK /\ StackOK /\ Balanced /\ stack # <<>> /\ ~Finished /\ Instruction.do = "type"
      /\ current \in {"type", "ident"} /\ Advance(FALSE) /\ stack' = Stepped
  BY DEF Balancing, MethodsInv, Type, At
<1>2. Top.method = "type"
  BY <1>1, TopFacts DEF Sound
<1>3. Moves(current, Mark(Top, TRUE), Bracket(Top.method, Top.pc + 1, TRUE))
  BY <1>1, <1>2 DEF Moves, Mark, Bracket
<1> QED  BY <1>1, <1>3, SteppedBalanced

LEMMA ReportBalanced ==
    ASSUME Balancing, Report, UNCHANGED lexerState
    PROVE  Balanced'
<1>1. ReaderOK
  BY DEF Balancing, MethodsInv
<1> QED  BY <1>1, Reports, ErrorBalanced

LEMMA StutterBalanced == ASSUME Balancing, UNCHANGED vars PROVE Balanced'
<1>1. stack' = stack /\ brackets' = brackets /\ errors' = errors
  BY DEF vars
<1> QED  BY <1>1 DEF Balancing, Balanced, Held

LEMMA BalancedStep == MethodsInv /\ Balanced /\ [Next]_vars => Balanced'
<1> SUFFICES ASSUME Balancing, [Next]_vars PROVE Balanced'
  BY DEF Balancing
<1>1. CASE ConsumeFails \/ GiveUp \/ OperandMissing \/ TypeMissing
  BY <1>1, ReportBalanced DEF ConsumeFails, GiveUp, OperandMissing, TypeMissing
<1>2. CASE Skip \/ Scan \/ Synchronized
  BY <1>2, SynchronizeBalanced DEF Skip, Scan, Synchronized
<1> QED  BY <1>1, <1>2, ConsumeBalanced, CallMethodBalanced, MatchBalanced, NoMatchBalanced,
            ReturnBalanced, StartDeclarationBalanced, StartStatementBalanced, StartBlockBalanced,
            StartExpressionBalanced, BlockLoopBalanced, BlockEndBalanced, NextDeclarationBalanced,
            ProgramEndBalanced, ProgramReturnsBalanced, OperandBalanced, PrefixBalanced,
            GroupBalanced, TypeBalanced, StutterBalanced
            DEF Next, Parse, Ended

LEMMA BalancedInit == Init => Balanced
<1> SUFFICES ASSUME Init PROVE Balanced
  OBVIOUS
<1> DEFINE f == [method |-> "program", pc |-> 1, node |-> TRUE, last |-> 0, stuck |-> 0]
<1>1. stack = <<f>> /\ brackets = <<>>
  BY DEF Init
<1>2. f.method = "program"
  OBVIOUS
<1> HIDE DEF f
<1>3. Len(stack) = 0 + 1 /\ 0 \in Nat /\ stack # <<>> /\ stack[Len(stack)] = f
  BY <1>1
<1>4. Outer(stack) = <<>>
  <2>1. Outer(stack) \in Seq(Marks) /\ Len(Outer(stack)) = 0
    BY <1>3, OuterMarks
  <2> QED  BY <2>1
<1>5. Mark(f, TRUE) = "none"
  BY <1>2 DEF Mark, Bracket
<1>6. Agree(<<>>, Append(<<>>, "none"))
  <2>1. <<>> \in Seq(Brackets) /\ <<>> \in Seq(Marks) /\ Agree(<<>>, <<>>)
    BY NoneHeld
  <2> QED  BY <2>1, AppendNone
<1> QED  BY <1>1, <1>3, <1>4, <1>5, <1>6 DEF Balanced, Held

\* Whatever the tokens: a file that is accepted was read to its end, and its brackets
\* match.  The open brackets of the text are always those that the methods in progress
\* have consumed and not closed, which are none once there are no methods.
THEOREM AcceptedIsBalancedHolds == Spec => []AcceptedIsBalanced
<1>1. ASSUME MethodsInv, Balanced PROVE AcceptedIsBalanced
  BY <1>1 DEF AcceptedIsBalanced, Balanced, MethodsInv, StackOK, StackIs, ReadOn
<1>2. Spec => []Balanced
  BY BalancedInit, BalancedStep, Invariant, PTL DEF Spec
<1> QED  BY <1>1, <1>2, Invariant, PTL
=============================================================================
