------------------------------- MODULE Values -------------------------------
(***************************************************************************)
(* What a compiled body computes: the integers that the program means next *)
(* to the bits of the instructions that src/codegen/CodeGenerator.cpp      *)
(* emits for it, with words of a few bits.                                 *)
(*                                                                         *)
(* The bodies are those that Types calls plain - operands of an operator   *)
(* have one LLVM type - and the stack is that of the visits, as there.  A  *)
(* program is followed as far as its integers have a meaning: until one    *)
(* leaves the range of its type, or it does what LLVM leaves undefined (a  *)
(* division by zero, a shift beyond the word, a load of what was never     *)
(* stored), or the top bit of an unsigned integer is taken for a sign.     *)
(***************************************************************************)
EXTENDS Integers, Sequences

CONSTANTS
    Names,          \* the variables of the function
    Types,          \* of "i32", "u32", "i64" and "bool", those in use
    W32, W64,       \* bits of an i32, at least 2, and of an i64, more
    MaxLiteral,     \* the integer literals are 0..MaxLiteral
    MaxValues       \* operands that wait at a time

\* The powers of two.
Power[n \in Nat] == IF n = 0 THEN 1 ELSE 2 * Power[n - 1]

\* The bits of a type, of which getLLVMType keeps no sign.
Width(type) == CASE type \in {"i32", "u32"} -> W32 [] type = "i64" -> W64 [] type = "bool" -> 1

\* The integers of a type.
Low(type) == IF type \in {"i32", "i64"} THEN -(Power[Width(type) - 1]) ELSE 0
High(type) == IF type \in {"i32", "i64"} THEN Power[Width(type) - 1] - 1 ELSE Power[Width(type)] - 1
InRange(type, n) == Low(type) <= n /\ n <= High(type)

\* The integer that bits stand for in a type, and as LLVM's signed instructions
\* take them; the bits of an integer.
Denotes(type, bits) == IF bits > High(type) THEN bits - Power[Width(type)] ELSE bits
Signed(bits, w) == IF bits >= Power[w - 1] THEN bits - Power[w] ELSE bits
Wrap(n, w) == n % Power[w]

\* A value: its type in the analyzer, its bits, and the integer that the program
\* means.
Value == [type : Types, bits : 0..(Power[W64] - 1), means : Int]
Undeclared == [type |-> "bool", bits |-> 0, means |-> -1]
Unset(type) == [type |-> type, bits |-> 0, means |-> -(Power[W64])]

VARIABLES
    locals,     \* the variables of the function
    values,     \* the operands visited and not yet used, innermost last
    said,       \* what say just printed, and the value it was given
    left        \* the program left what the language gives a meaning to

vars == <<locals, values, said, left>>

NothingSaid == [value |-> Undeclared, printed |-> -1]

Init ==
    /\ locals = [x \in Names |-> Undeclared]
    /\ values = <<>> /\ said = NothingSaid /\ left = FALSE

-----------------------------------------------------------------------------
(* The instructions *)

Bit(n, i) == (n \div Power[i]) % 2

\* The operation on each bit, by how many of the two bits must be set.
OnBits(ones, a, b, w) ==
    LET lower[n \in 0..w] ==
            IF n = 0 THEN 0
            ELSE lower[n - 1] + IF Bit(a, n - 1) + Bit(b, n - 1) \in ones THEN Power[n - 1] ELSE 0
    IN  lower[w]
And == {2}
Or == {1, 2}
Xor == {1}
Truth(p) == IF p THEN 1 ELSE 0
Abs(n) == IF n < 0 THEN -n ELSE n
Quotient(a, b) == IF (a < 0) = (b < 0) THEN Abs(a) \div Abs(b) ELSE -(Abs(a) \div Abs(b))

Arithmetic == {"+", "-", "*", "/", "%"}
Comparisons == {"==", "!=", "<", "<="}      \* > and >= are < and <= turned around
BitOps == {"&", "|", "^", "<<", ">>"}
Logical == {"&&", "||"}

\* What an operator means for integers; the operators on bits see a negative one
\* as all its signs.
Means(op, a, b) ==
    CASE op = "+" -> a + b [] op = "-" -> a - b [] op = "*" -> a * b
      [] op = "/" -> Quotient(a, b) [] op = "%" -> a - b * Quotient(a, b)
      [] op = "==" -> Truth(a = b) [] op = "!=" -> Truth(a # b)
      [] op = "<" -> Truth(a < b) [] op = "<=" -> Truth(a <= b)
      [] op = "&" -> Signed(OnBits(And, a, b, W64 + 1), W64 + 1)
      [] op = "|" -> Signed(OnBits(Or, a, b, W64 + 1), W64 + 1)
      [] op = "^" -> Signed(OnBits(Xor, a, b, W64 + 1), W64 + 1)
      [] op = "<<" -> a * Power[b] [] op = ">>" -> a \div Power[b]
      [] op = "&&" -> a * b [] op = "||" -> a + b - a * b

LogicalShift(op, a, b, w) ==
    LET i == Signed(a, w) j == Signed(b, w) IN
    CASE op \in {"+", "-", "*", "/", "%"} -> Wrap(Means(op, i, j), w)
      [] op \in Comparisons -> Means(op, i, j)
      [] op \in {"&", "&&"} -> OnBits(And, a, b, w)
      [] op \in {"|", "||"} -> OnBits(Or, a, b, w)
      [] op = "^" -> OnBits(Xor, a, b, w)
      [] op = "<<" -> Wrap(a * Power[b], w)
      [] op = ">>" -> a \div Power[b]

\* The instruction of an operator on words of w bits: add, sub, mul, sdiv, srem,
\* icmp eq, ne, slt and sle, and, or, xor, shl and ashr.
Instruction(op, a, b, w) ==
    LET i == Signed(a, w) j == Signed(b, w) IN
    CASE op \in {"+", "-", "*", "/", "%"} -> Wrap(Means(op, i, j), w)
      [] op \in Comparisons -> Means(op, i, j)
      [] op \in {"&", "&&"} -> OnBits(And, a, b, w)
      [] op \in {"|", "||"} -> OnBits(Or, a, b, w)
      [] op = "^" -> OnBits(Xor, a, b, w)
      [] op = "<<" -> Wrap(a * Power[b], w)
      [] op = ">>" -> Wrap(i \div Power[b], w)

\* What LLVM leaves undefined.
Undefined(op, a, b, w) ==
    \/ op \in {"/", "%"} /\ (b = 0 \/ (Signed(a, w) = -(Power[w - 1]) /\ Signed(b, w) = -1))
    \/ op \in {"<<", ">>"} /\ b >= w

\* An unsigned integer whose top bit is taken for a sign: by the instruction of
\* the operator, or next to a signed integer.
TopBit(v) == v.type = "u32" /\ v.bits >= Power[W32 - 1]
Mistaken(op, v, w) ==
    (op \in {"/", "%", "<", "<=", ">>"} \/ v.type # w.type) /\ (TopBit(v) \/ TopBit(w))

\* getBinaryExprType on operands of one width
BinaryType(t, u, op) ==
    IF op \in Comparisons \cup Logical THEN "bool" ELSE IF t = u THEN t ELSE "i32"

\* An operator takes bools if it is a comparison of equality or logical.
Takes(op, t, u) ==
    /\ Width(t) = Width(u)
    /\ IF t = "bool" THEN op \in {"==", "!="} \cup Logical ELSE op \notin Logical

-----------------------------------------------------------------------------
Depth == Len(values)
Operand(i) == values[Depth - i]

\* The program is not followed any further.
Leave == left' = TRUE /\ UNCHANGED <<locals, values>> /\ said' = NothingSaid

\* A value takes the place of the n innermost ones, if its integer is one of its
\* type.
Replace(n, type, bits, integer) ==
    IF InRange(type, integer)
    THEN /\ values' = Append(SubSeq(values, 1, Depth - n),
                             [type |-> type, bits |-> bits, means |-> integer])
         /\ said' = NothingSaid /\ UNCHANGED <<locals, left>>
    ELSE Leave

\* The literal is an i32 whatever its value: ConstantInt::get cuts it.
IntegerLiteral(n) == Depth < MaxValues /\ Replace(0, "i32", Wrap(n, W32), n)

BoolLiteral(b) == Depth < MaxValues /\ Replace(0, "bool", Truth(b), Truth(b))

\* A load; the alloca of a variable without an initializer holds anything.
Identifier(x) ==
    LET v == locals[x] IN
    /\ Depth < MaxValues /\ v # Undeclared
    /\ IF v = Unset(v.type) THEN Leave ELSE Replace(0, v.type, v.bits, v.means)

\* The result of a function of the library: any integer of the type.
CallResult(type, n) == Depth < MaxValues /\ Replace(0, type, Wrap(n, Width(type)), n)

\* An argument for a parameter that is an i64: an i32 is sign-extended.  The
\* function returns it.
Argument ==
    LET v == Operand(0) IN
    /\ Depth >= 1 /\ "i64" \in Types /\ Width(v.type) = W32
    /\ IF TopBit(v) THEN Leave
       ELSE Replace(1, "i64", Wrap(Signed(v.bits, W32), W64), v.means)

\* Both operands are evaluated, those of && and || too.
BinaryExpr(op) ==
    LET a == Operand(1) b == Operand(0)
        w == Width(a.type)
    IN  /\ Depth >= 2 /\ Takes(op, a.type, b.type)
        /\ IF Undefined(op, a.bits, b.bits, w) \/ Mistaken(op, a, b) THEN Leave
           ELSE Replace(2, BinaryType(a.type, b.type, op),
                        Instruction(op, a.bits, b.bits, w), Means(op, a.means, b.means))

\* neg, and the not of ! and ~
UnaryExpr(op) ==
    LET v == Operand(0) w == Width(v.type) IN
    /\ Depth >= 1 /\ (v.type = "bool") = (op = "!")
    /\ CASE op = "-" -> Replace(1, v.type, Wrap(-v.bits, w), -v.means)
         [] op = "~" -> Replace(1, v.type, Power[w] - 1 - v.bits,
                                (IF v.type = "u32" THEN Power[w] ELSE 0) - 1 - v.means)
         [] op = "!" -> Replace(1, "bool", 1 - v.bits, 1 - v.means)

\* A declaration with an initializer, and an assignment, of a value of the same
\* width; one without leaves the alloca as it is.
Store(x, type) ==
    LET v == Operand(0) IN
    /\ Depth = 1 /\ Width(type) = Width(v.type)
    /\ locals[x] = Undeclared \/ locals[x].type = type
    /\ IF InRange(type, v.means)
       THEN /\ locals' = [locals EXCEPT ![x] = [v EXCEPT !.type = type]]
            /\ values' = <<>>
            /\ said' = NothingSaid /\ UNCHANGED left
       ELSE Leave

BareVarDecl(x, type) ==
    /\ Depth = 0 /\ locals[x] = Undeclared
    /\ locals' = [locals EXCEPT ![x] = Unset(type)]
    /\ said' = NothingSaid /\ UNCHANGED <<values, left>>

\* printf("%u")
PrintedUnsigned(v) == {Wrap(v.bits, W32)}

\* printf("%d") takes the lower 32 bits of its argument, as an int.  Of a bool it
\* gets one bit: nothing says what the others of the argument are.
Printed(v) ==
    IF v.type = "bool" THEN {n \in Low("i32")..High("i32") : n % 2 = v.bits}
    ELSE {Signed(Wrap(v.bits, W32), W32)}

Say ==
    /\ Depth = 1
    /\ \E n \in Printed(Operand(0)) : said' = [value |-> Operand(0), printed |-> n]
    /\ values' = <<>>
    /\ UNCHANGED <<locals, left>>

Visit ==
    /\ ~left
    /\ \/ \E n \in 0..MaxLiteral : IntegerLiteral(n)
       \/ \E b \in BOOLEAN : BoolLiteral(b)
       \/ \E x \in Names : Identifier(x)
       \/ \E type \in Types \cap {"i64"} : \E n \in Low(type)..High(type) : CallResult(type, n)
       \/ Argument
       \/ \E op \in Arithmetic \cup Comparisons \cup BitOps \cup Logical : BinaryExpr(op)
       \/ \E op \in {"-", "~", "!"} : UnaryExpr(op)
       \/ \E x \in Names, type \in Types : Store(x, type) \/ BareVarDecl(x, type)
       \/ Say

Stopped == left /\ UNCHANGED vars

Next == Visit \/ Stopped

Spec == Init /\ [][Next]_vars

-----------------------------------------------------------------------------
TypeOK ==
    /\ locals \in [Names -> Value]
    /\ values \in Seq(Value) /\ Depth <= MaxValues
    /\ \A i \in 1..Depth : values[i].bits < Power[Width(values[i].type)]
    /\ said \in [value : Value, printed : Int]
    /\ left \in BOOLEAN

Exact(v) == Denotes(v.type, v.bits) = v.means

(* While no integer on the way leaves the range of its type - a literal that of *)
(* an i32 - what a body of signed integers and bools computes is what its       *)
(* operators mean, through variables, arguments that are extended, and all      *)
(* instructions, which are chosen by the operator alone                         *)
(* (CodeGenerator.cpp:237-511).                                                 *)
SignedExact == \A i \in 1..Depth : values[i].type # "u32" => Exact(values[i])

(* The same of unsigned integers, as long as those that are divided, compared,  *)
(* shifted to the right, extended or mixed with signed ones are less than half  *)
(* of their range: the instructions are the signed ones                         *)
(* (CodeGenerator.cpp:318-401).                                                 *)
UnsignedExact == \A i \in 1..Depth : values[i].type = "u32" => Exact(values[i])

(* Both: what integers and bools hold is what the program means.                *)
IntegersExact == TypeOK /\ SignedExact /\ UnsignedExact

(* say prints the integer that it is given if an int can hold it, of an i64     *)
(* too, whose lower half "%d" takes; of a bool it may print any number that has *)
(* its lowest bit (CodeGenerator.cpp:676-679).                                  *)
SaysInts ==
    said.value.type # "bool" /\ InRange("i32", said.value.means)
        => said.printed = said.value.means
=============================================================================
