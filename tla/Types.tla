-------------------------------- MODULE Types --------------------------------
(***************************************************************************)
(* The types of a function body, twice: the names of types that the        *)
(* semantic analyzer computes (src/sema/SemanticAnalyzer.cpp,              *)
(* TypeChecker.cpp, ModuleRegistry.cpp) and the LLVM types of what the     *)
(* code generator builds (src/codegen/CodeGenerator.cpp), which looks at   *)
(* the type that a declaration writes and never at the analyzer's.         *)
(*                                                                         *)
(* Both phases visit an expression operands first, so it is a program for  *)
(* a stack of values, and an action is the visit of one node by both.  The *)
(* generator runs only if the analyzer reported nothing: every state with  *)
(* an empty stack is also the end of a program.                            *)
(***************************************************************************)
EXTENDS Integers, Sequences, FiniteSets

CONSTANTS
    Names,      \* the variables of the function
    Written,    \* the types that its declarations name
    Called,     \* the library's functions that it calls
    MaxValues,  \* operands that wait at a time
    Shapes      \* the unusual uses of types that are explored

\* Types as written: those of TypeChecker and getLLVMType, and "other" for a
\* name that neither knows.
SignedTypes == {"i8", "i16", "i32", "i64"}
UnsignedTypes == {"u8", "u16", "u32", "u64"}
AllTypes == SignedTypes \cup UnsignedTypes \cup {"f32", "f64", "bool", "char", "str", "void", "other"}

\* The types of LLVM's values; "void" also where currentValue_ is null.
IrTypes == {"i1", "i8", "i16", "i32", "i64", "float", "double", "ptr", "void"}

\* A declaration without a type whose initializer is not an i32; a variable or
\* a result that gets a value of another type; operands of two types, or an i8
\* and a u8 or an i16 and a u16, whose common type is i32; operands that are no
\* numbers; % on floats; a condition that is no integer; arguments that are not
\* what the function takes; a variable of type void.
AllShapes == {"inferred", "converted", "mixed", "notNumbers", "floatRem", "oddCondition",
              "oddArguments", "voidVariable"}

Value == [type : AllTypes,              \* SemanticAnalyzer::exprTypes_
          ir   : IrTypes,               \* of CodeGenerator::currentValue_
          name : Names \cup {"none"}]   \* if the node is an Identifier

\* A variable: its symbol's type, and its alloca's.
Local == [type : AllTypes, ir : IrTypes]
Undeclared == [type |-> "void", ir |-> "void"]

VARIABLES
    locals,     \* the variables of the function
    returns,    \* SemanticAnalyzer::currentReturnType_
    values,     \* the operands visited and not yet used, innermost last
    rejected,   \* an error was reported
    malformed,  \* an instruction is not well formed: the verifier rejects it
    store,      \* the store that the last visit emitted
    plain       \* the program has used types in no unusual way so far

vars == <<locals, returns, values, rejected, malformed, store, plain>>

Store == [type : AllTypes, ir : IrTypes, into : IrTypes]
NoStore == [type |-> "void", ir |-> "void", into |-> "void"]

-----------------------------------------------------------------------------
(* Types of the analyzer *)

Integer(t) == t \in SignedTypes \cup UnsignedTypes
Float(t) == t \in {"f32", "f64"}
Numeric(t) == Integer(t) \/ Float(t)

\* areTypesCompatible
Compatible(t, u) == t = u \/ (Numeric(t) /\ Numeric(u))

\* getCommonType
CommonType(t, u) ==
    LET Either(w) == t = w \/ u = w
    IN CASE t = u -> t
         [] t # u /\ (Float(t) \/ Float(u)) -> IF Either("f64") THEN "f64" ELSE "f32"
         [] t # u /\ Integer(t) /\ Integer(u) ->
              IF Either("i64") THEN "i64" ELSE IF Either("u64") THEN "u64"
              ELSE IF Either("i32") THEN "i32" ELSE IF Either("u32") THEN "u32" ELSE "i32"
         [] OTHER -> t

\* Operators, by what their operands have to be: + - * /, %, the comparisons,
\* && and ||, and those on bits.
BinaryOps == {"arith", "rem", "compare", "logic", "bits"}
UnaryOps == {"neg", "not", "compl"}

\* Only a comparison and a logical operator have a type of their own.
BinaryUnchecked(t, u, op) == IF op \in {"compare", "logic"} THEN "bool" ELSE CommonType(t, u)

\* getBinaryExprType
BinaryType(t, u, op) ==
    CASE op \in {"arith", "rem"} /\ Numeric(t) /\ Numeric(u) -> CommonType(t, u)
      [] op = "compare" -> "bool"
      [] op = "logic" /\ t = "bool" /\ u = "bool" -> "bool"
      [] op = "bits" /\ Integer(t) /\ Integer(u) -> CommonType(t, u)
      [] OTHER -> "void"

\* getUnaryExprType
UnaryType(t, op) ==
    IF \/ op = "neg" /\ Numeric(t)
       \/ op = "not" /\ t = "bool"
       \/ op = "compl" /\ Integer(t)
    THEN t ELSE "void"

-----------------------------------------------------------------------------
(* Types of the generator *)

\* getLLVMType
IrType(t) ==
    CASE t \in {"i8", "u8", "char"} -> "i8"
      [] t \in {"i16", "u16"} -> "i16"
      [] t \in {"i32", "u32", "other"} -> "i32"
      [] t \in {"i64", "u64"} -> "i64"
      [] t = "f32" -> "float"
      [] t = "f64" -> "double"
      [] t = "bool" -> "i1"
      [] t = "str" -> "ptr"
      [] t = "void" -> "void"

AlwaysI32(written) == "i32"

\* The type of a declaration, which is i32 unless it is written.
DeclaredIr(written) == IF written = "none" THEN "i32" ELSE IrType(written)

IrInteger(i) == i \in {"i1", "i8", "i16", "i32", "i64"}
IrFloat(i) == i \in {"float", "double"}

\* The bytes that a value of the type takes in memory, on a target of 64 bits.
Bytes(i) == CASE i \in {"i1", "i8"} -> 1 [] i = "i16" -> 2 [] i \in {"i32", "float"} -> 4
              [] i \in {"i64", "double", "ptr"} -> 8 [] i = "void" -> 0

BinaryIrAsLeft(i, op) == i

\* The LLVM type of a binary operation with a left operand of type i.
BinaryIr(i, op) == IF op = "compare" THEN "i1" ELSE i

\* What the verifier asks of it: the left operand decides whether it is the
\* instruction for integers or for floats; %, &&, || and the operators on bits
\* have one for integers only.
WellFormed(i, j, op) ==
    /\ i = j
    /\ IrInteger(i) \/ (IrFloat(i) /\ op \in {"arith", "compare"})

\* The library by its signatures: the type in ModuleRegistry, and the LLVM type
\* that the generator declares.
Library ==
    [time_ms |-> [type |-> "i64",  params |-> <<>>,               ir |-> "i64"],
     sleep   |-> [type |-> "void", params |-> <<"i32">>,          ir |-> "void"],
     say_f32 |-> [type |-> "void", params |-> <<"float">>,        ir |-> "void"],
     grab    |-> [type |-> "i32",  params |-> <<>>,               ir |-> "i32"],
     min_i32 |-> [type |-> "i32",  params |-> <<"i32", "i32">>,   ir |-> "i32"],
     sqrt    |-> [type |-> "f64",  params |-> <<"double">>,       ir |-> "double"],
     strlen  |-> [type |-> "i64",  params |-> <<"ptr">>,          ir |-> "i64"],
     strcat  |-> [type |-> "str",  params |-> <<"ptr", "ptr">>,   ir |-> "ptr"],
     say_i64 |-> [type |-> "void", params |-> <<"i64">>,          ir |-> "void"],
     create  |-> [type |-> "void", params |-> <<"i64">>,          ir |-> "ptr"],
     get     |-> [type |-> "void", params |-> <<"ptr", "ptr">>,   ir |-> "ptr"],
     insert  |-> [type |-> "i32",  params |-> <<"ptr", "ptr", "ptr">>, ir |-> "i32"],
     destroy |-> [type |-> "void", params |-> <<"ptr">>,          ir |-> "void"]]

ASSUME ParametersAssumption ==
    /\ Written \subseteq AllTypes
    /\ Called \subseteq DOMAIN Library
    /\ MaxValues \in Nat
    /\ Shapes \subseteq AllShapes
    /\ "none" \notin Names

\* An argument: an i32 is extended if the parameter is an i64.
Argument(i, param) == IF i = "i32" /\ param = "i64" THEN "i64" ELSE i

\* The parameters take the arguments that are passed, whose types are irs: each
\* has the type of the parameter at its place among them.
Take(params, passed, irs) ==
    /\ Cardinality(passed) = Len(params)
    /\ \A i \in passed : LET param == params[Cardinality({j \in passed : j <= i})]
                         IN  Argument(irs[i], param) = param

-----------------------------------------------------------------------------
(* Programs *)

Accepted == ~rejected /\ ~malformed

If(shape, odd) == IF odd THEN {shape} ELSE {}

\* The shapes of what is visited: they are explored, and make the program unusual.
Unusual(shapes) == shapes \subseteq Shapes /\ plain' = (plain /\ shapes = {})

Depth == Len(values)
Operand(i) == values[Depth - i]
Without(n) == SubSeq(values, 1, Depth - n)
Pushed(n, type, ir) == Append(Without(n), [type |-> type, ir |-> ir, name |-> "none"])

\* The analyzer reports an error and the generator is not run.
Reject ==
    /\ rejected' = TRUE /\ store' = NoStore
    /\ UNCHANGED <<locals, returns, values, malformed>>

Verifies(wellFormed) == malformed' = ~wellFormed /\ UNCHANGED rejected

Fine == UNCHANGED <<rejected, malformed>>

Silent == store' = NoStore

Stored(type, ir, into) ==
    store' = IF ir = "void" THEN NoStore ELSE [type |-> type, ir |-> ir, into |-> into]

\* A function begins: each of its parameters, none of which is void, has an
\* alloca.
Init ==
    /\ \E params \in [Names -> Written \cup {"none"}] :
        locals = [x \in Names |-> IF params[x] \in {"none", "void"} THEN Undeclared
                                  ELSE [type |-> params[x], ir |-> IrType(params[x])]]
    /\ returns \in Written
    /\ values = <<>>
    /\ rejected = FALSE /\ malformed = FALSE
    /\ store = NoStore
    /\ plain = TRUE

Literal(type) ==
    /\ Depth < MaxValues
    /\ values' = Pushed(0, type, IrType(type))
    /\ Fine /\ Silent /\ UNCHANGED <<locals, returns, plain>>

Identifier(x) ==
    /\ Depth < MaxValues
    /\ locals[x] # Undeclared
    /\ values' = Append(values, [type |-> locals[x].type, ir |-> locals[x].ir, name |-> x])
    /\ Fine /\ Silent /\ UNCHANGED <<locals, returns, plain>>

BinaryExpr(op) ==
    /\ Depth >= 2
    /\ LET left == Operand(1)
           right == Operand(0)
           type == BinaryType(left.type, right.type, op)
           none == left.ir = "void" \/ right.ir = "void"
       IN /\ Unusual(If("mixed", \/ IrType(left.type) # IrType(right.type)
                                 \/ op # "compare" /\ IrType(type) \notin {IrType(left.type), "void"})
                     \cup If("notNumbers", /\ op = "compare"
                                           /\ ~IrInteger(IrType(left.type)) /\ ~Float(left.type))
                     \cup If("floatRem", op = "rem" /\ Float(left.type)))
          /\ \/ type = "void" /\ Reject
             \/ /\ type # "void"
                /\ values' = Pushed(2, type, IF none THEN "void" ELSE BinaryIr(left.ir, op))
                /\ Verifies(none \/ WellFormed(left.ir, right.ir, op))
                /\ Silent /\ UNCHANGED <<locals, returns>>

\* An assignment; its target is a name, or the generator reports an error.
Assign ==
    /\ Depth >= 2
    /\ LET left == Operand(1)
           right == Operand(0)
       IN /\ Unusual(If("converted", IrType(left.type) # IrType(right.type)))
          /\ \/ /\ ~Compatible(left.type, right.type) \/ right.type = "void" \/ left.name = "none"
                /\ Reject
             \/ /\ Compatible(left.type, right.type) /\ right.type # "void" /\ left.name # "none"
                /\ LET into == locals[left.name].ir
                       none == left.ir = "void" \/ right.ir = "void"
                   IN /\ values' = Pushed(2, right.type, IF none THEN "void" ELSE right.ir)
                      /\ Stored(left.type, right.ir, into)
                /\ Fine /\ UNCHANGED <<locals, returns>>

UnaryExpr(op) ==
    /\ Depth >= 1
    /\ LET operand == Operand(0)
           type == UnaryType(operand.type, op)
       IN \/ type = "void" /\ Reject /\ UNCHANGED plain
          \/ /\ type # "void"
             /\ values' = Pushed(1, type, operand.ir)
             /\ Verifies(\/ operand.ir = "void" \/ IrInteger(operand.ir)
                         \/ op = "neg" /\ IrFloat(operand.ir))
             /\ Silent /\ UNCHANGED <<locals, returns, plain>>

\* A call of a library function with n arguments.  The analyzer does not look
\* at how many they are and of what types; null ones are left out.
CallExpr(f, n) ==
    /\ Depth >= n
    /\ n = 0 => Depth < MaxValues
    /\ LET sig == Library[f]
           built == [i \in 1..n |-> Operand(n - i).ir]
           checked == [i \in 1..n |-> IrType(Operand(n - i).type)]
       IN /\ Unusual(If("oddArguments", ~Take(sig.params, 1..n, checked)))
          /\ values' = Pushed(n, sig.type, sig.ir)
          /\ Verifies(Take(sig.params, {i \in 1..n : built[i] # "void"}, built))
    /\ Silent /\ UNCHANGED <<locals, returns>>

-----------------------------------------------------------------------------
(* Statements *)

\* The type of a variable: what is written, or what the initializer has.
SymbolType(written, init) == IF written = "none" THEN init ELSE written

\* let, const or own with an initializer.
VarDecl(x, written) ==
    /\ Depth = 1
    /\ locals[x] = Undeclared
    /\ LET init == Operand(0)
           ir == DeclaredIr(written)
       IN /\ Unusual(If("inferred", written = "none" /\ IrType(init.type) # "i32")
                     \cup If("converted", written # "none" /\ IrType(init.type) # IrType(written))
                     \cup If("voidVariable", written = "void"))
          /\ \/ written # "none" /\ ~Compatible(init.type, written) /\ Reject
             \/ /\ written = "none" \/ Compatible(init.type, written)
                /\ LET type == SymbolType(written, init.type)
                   IN /\ locals' = [locals EXCEPT ![x] = [type |-> type, ir |-> ir]]
                      /\ Stored(type, init.ir, ir)
                /\ values' = <<>>
                /\ Verifies(written # "void") /\ UNCHANGED returns

\* A declaration without an initializer; it needs a type.
BareVarDecl(x, written) ==
    /\ Depth = 0
    /\ locals[x] = Undeclared
    /\ Unusual(If("voidVariable", written = "void"))
    /\ \/ written = "none" /\ Reject
       \/ /\ written # "none"
          /\ locals' = [locals EXCEPT ![x] = [type |-> written, ir |-> IrType(written)]]
          /\ Verifies(written # "void")
          /\ Silent /\ UNCHANGED <<returns, values>>

\* An expression statement, a say or a trace: printf takes whatever it gets.
ExprStmt ==
    /\ Depth = 1
    /\ values' = <<>>
    /\ Fine /\ Silent /\ UNCHANGED <<locals, returns, plain>>

\* The condition of an if or a loop, compared with an integer 0 of its type; a
\* type other than bool is only a warning.
Condition ==
    /\ Depth = 1
    /\ Unusual(If("oddCondition", ~IrInteger(IrType(Operand(0).type))))
    /\ values' = <<>>
    /\ Verifies(Operand(0).ir = "void" \/ IrInteger(Operand(0).ir))
    /\ Silent /\ UNCHANGED <<locals, returns>>

\* A return with a value.
ReturnStmt ==
    /\ Depth = 1
    /\ LET value == Operand(0)
       IN /\ Unusual(If("converted", IrType(value.type) # IrType(returns)))
          /\ \/ ~Compatible(value.type, returns) /\ Reject
             \/ /\ Compatible(value.type, returns)
                /\ values' = <<>>
                /\ Verifies(value.ir = IrType(returns))
                /\ Silent /\ UNCHANGED <<locals, returns>>

BareReturnStmt ==
    /\ Depth = 0
    /\ returns # "void"
    /\ Reject /\ UNCHANGED plain

Visit ==
    /\ Accepted
    /\ \/ \E t \in {"i32", "f64", "str", "bool"} : Literal(t)
       \/ \E x \in Names : Identifier(x)
       \/ \E op \in BinaryOps : BinaryExpr(op)
       \/ \E op \in UnaryOps : UnaryExpr(op)
       \/ Assign
       \/ \E f \in Called : \E n \in 0..MaxValues : CallExpr(f, n)
       \/ \E x \in Names, t \in Written \cup {"none"} : VarDecl(x, t) \/ BareVarDecl(x, t)
       \/ ExprStmt \/ Condition \/ ReturnStmt \/ BareReturnStmt

Ended == ~Accepted /\ UNCHANGED vars

Next == Visit \/ Ended

Spec == Init /\ [][Next]_vars

-----------------------------------------------------------------------------
(* What the two phases promise *)

\* Type correctness.
TypeOK ==
    /\ locals \in [Names -> Local]
    /\ returns \in AllTypes
    /\ values \in Seq(Value)
    /\ rejected \in BOOLEAN /\ malformed \in BOOLEAN
    /\ store \in Store /\ plain \in BOOLEAN

\* In plain programs the analyzer's type of an expression is that of what the
\* generator built: without this, no check of the analyzer says anything about
\* the program that runs.
ValuesAgree ==
    plain /\ Accepted =>
        /\ \A i \in 1..Depth : values[i].ir = IrType(values[i].type)
        /\ \A x \in Names : locals[x] # Undeclared => locals[x].ir = IrType(locals[x].type)

\* A plain body that the analyzer accepts has well-formed instructions only: the
\* verifier (CodeGenerator.cpp:779) has nothing to add to the analyzer.
AcceptedVerifies == plain => ~malformed

\* In plain programs a store writes all of its variable, and nothing but it: allocas have the
\* size of their type, and the verifier does not compare it with the value.
StoresFit == plain => Bytes(store.ir) = Bytes(store.into)

\* However types are mixed: what the analyzer calls bool is one bit or was left
\* out, so that a condition of type bool never breaks the comparison with 0
\* that the generator adds (CodeGenerator.cpp:583, 633).
BoolsAreBits ==
    Accepted => \A i \in 1..Depth : values[i].type = "bool" => values[i].ir \in {"i1", "void"}

\* However types are mixed: an expression of a number's type or of type str has
\* a value, so a variable of such a type with an initializer is initialized and
\* a return of it returns something (CodeGenerator.cpp:553, 570).
NumbersHaveValues ==
    Accepted => \A i \in 1..Depth : Numeric(values[i].type) \/ values[i].type = "str"
                                        => values[i].ir # "void"

\* "let y = 3.14; // Inferred as f64" (LANGUAGE_SPEC.md:55): the variable has
\* room for what the analyzer infers.
InferredFits == store.type = "f64" => Bytes(store.into) >= Bytes(store.ir)

\* What the two phases keep of types, together: well typed, and in agreement.
TypesAgree == TypeOK /\ ValuesAgree

\* A plain body that the analyzer accepts is one that LLVM accepts, and that
\* writes no variable beyond its size or short of it.
AcceptedIsSound == AcceptedVerifies /\ StoresFit

\* What holds of values however types are mixed.
ValuesAreSound == BoolsAreBits /\ NumbersHaveValues
=============================================================================
