----------------------------- MODULE TypesProofs -----------------------------
(***************************************************************************)
(* For any variables, written types, calls and depth of expressions: the   *)
(* generator's types are those of the analyzer, as far as the properties   *)
(* of Types say.                                                           *)
(*                                                                         *)
(* For words of any width: the instructions compute what the operators     *)
(* mean, as far as the properties of Values say.  Both modules are about   *)
(* one stack of operands, Types about its types and Values about its bits. *)
(***************************************************************************)
EXTENDS MCBodies, FiniteSetTheorems, WellFoundedInduction, TLAPS

-----------------------------------------------------------------------------
(* The inductive invariant *)

\* The registry and the generator agree on what the called functions return.
\* They do not of create and get (ModuleRegistry.cpp:49, 52).
SignaturesMatch == \A f \in Called : Library[f].ir = IrType(Library[f].type)

\* A variable has room for a value, unless it is of type void.
LocalsHaveRoom == \A x \in Names : locals[x].ir = "void" => locals[x].type = "void"

\* An operand that is a name is the variable, which no declaration replaces
\* while the operand waits.
NamesAreLocals ==
    \A k \in 1..Depth : values[k].name # "none" =>
        LET local == locals[values[k].name]
        IN values[k].type = local.type /\ values[k].ir = local.ir

\* Variables of type bool are bits, unless their type is inferred.
LocalBoolsAreBits == \A x \in Names : locals[x].type = "bool" => locals[x].ir = "i1"

\* What a plain program has, operands and variables, instructions and stores.
PlainAgrees ==
    /\ Accepted => \A k \in 1..Depth : values[k].ir = IrType(values[k].type)
    /\ \A x \in Names : locals[x].ir = IrType(locals[x].type)
    /\ ~malformed
    /\ Bytes(store.ir) = Bytes(store.into)

IInv ==
    /\ TypeOK /\ LocalsHaveRoom /\ NamesAreLocals
    /\ NumbersHaveValues
    /\ SignaturesMatch => (plain => PlainAgrees)
    /\ "inferred" \notin Shapes => BoolsAreBits /\ LocalBoolsAreBits

-----------------------------------------------------------------------------
(* Types *)

NumberOrText(t) == Numeric(t) \/ t = "str"
BoolIsBit(t, i) == "inferred" \notin Shapes => (t = "bool" => i \in {"i1", "void"})

\* What the generator makes of a type.
LEMMA IrTypeIs ==
    ASSUME NEW t \in AllTypes
    PROVE  /\ IrType(t) \in IrTypes
           /\ Numeric(t) => IrInteger(IrType(t)) \/ IrFloat(IrType(t))
           /\ Integer(t) => IrInteger(IrType(t))
           /\ IrType(t) = "void" <=> t = "void"
           /\ IrType(t) = "i1" <=> t = "bool"
           /\ NumberOrText(t) => t \notin {"void", "bool"}
           /\ IrFloat(IrType(t)) <=> Float(t)
BY DEF IrType, AllTypes, IrTypes, Numeric, Integer, Float, SignedTypes, UnsignedTypes,
       IrInteger, IrFloat, NumberOrText

\* The type of a binary operation that the analyzer accepts.
LEMMA BinaryTypeIs ==
    ASSUME NEW t \in AllTypes, NEW u \in AllTypes, NEW op \in BinaryOps,
           BinaryType(t, u, op) # "void"
    PROVE  /\ BinaryType(t, u, op) \in AllTypes
           /\ op = "compare" => BinaryType(t, u, op) = "bool"
           /\ op = "logic" => BinaryType(t, u, op) = "bool" /\ t = "bool" /\ u = "bool"
           /\ op = "bits" => Integer(t) /\ Integer(u)
           /\ op \in {"arith", "rem"} => Numeric(t) /\ Numeric(u)
           /\ op \in {"arith", "rem", "bits"} => Numeric(BinaryType(t, u, op))
<1>1. CASE op \in {"arith", "rem"}
  <2>1. Numeric(t) /\ Numeric(u) /\ BinaryType(t, u, op) = CommonType(t, u)
    BY <1>1 DEF BinaryType
  <2>2. CommonType(t, u) \in AllTypes /\ Numeric(CommonType(t, u))
    BY <2>1 DEF CommonType, AllTypes, Numeric, Integer, Float, SignedTypes, UnsignedTypes
  <2>3. QED
    BY <1>1, <2>1, <2>2
<1>2. CASE op = "compare"
  BY <1>2 DEF BinaryType, AllTypes
<1>3. CASE op = "logic"
  BY <1>3 DEF BinaryType, AllTypes
<1>4. CASE op = "bits"
  <2>1. Integer(t) /\ Integer(u) /\ BinaryType(t, u, op) = CommonType(t, u)
    BY <1>4 DEF BinaryType
  <2>2. CommonType(t, u) \in AllTypes /\ Numeric(CommonType(t, u))
    BY <2>1 DEF CommonType, AllTypes, Numeric, Integer, Float, SignedTypes, UnsignedTypes
  <2>3. QED
    BY <1>4, <2>1, <2>2
<1>5. QED
  BY <1>1, <1>2, <1>3, <1>4 DEF BinaryOps

\* Compatible types are the same, or both a number's.
LEMMA CompatibleIs ==
    ASSUME NEW t \in AllTypes, NEW u \in AllTypes, Compatible(t, u)
    PROVE  NumberOrText(u) => NumberOrText(t)
BY DEF Compatible, NumberOrText

\* What the library's functions take and return.
LEMMA LibraryIs ==
    ASSUME NEW f \in Called
    PROVE  /\ Library[f].type \in AllTypes /\ Library[f].ir \in IrTypes
           /\ NumberOrText(Library[f].type) => Library[f].ir # "void"
           /\ Library[f].type # "bool"
           /\ \A k \in 1..Len(Library[f].params) : Library[f].params[k] # "void"
<1>1. f \in DOMAIN Library
  BY ParametersAssumption
<1>2. /\ Library[f].type \in {"i32", "i64", "f64", "str", "void"}
      /\ Library[f].ir \in {"i32", "i64", "double", "ptr", "void"}
      /\ Library[f].type # "void" => Library[f].ir # "void"
  BY <1>1 DEF Library
<1>3. Library[f].params \in {<<>>, <<"i32">>, <<"float">>, <<"i32", "i32">>, <<"double">>, <<"ptr">>,
                            <<"ptr", "ptr">>, <<"i64">>, <<"ptr", "ptr", "ptr">>}
  BY <1>1 DEF Library
<1>4. ASSUME NEW params \in {<<>>, <<"i32">>, <<"float">>, <<"i32", "i32">>, <<"double">>, <<"ptr">>,
                             <<"ptr", "ptr">>, <<"i64">>, <<"ptr", "ptr", "ptr">>},
             NEW k \in 1..Len(params)
      PROVE  params[k] # "void"
  OBVIOUS
<1>5. QED
  BY <1>2, <1>3, <1>4 DEF AllTypes, IrTypes, NumberOrText, Numeric, Integer, Float,
                          SignedTypes, UnsignedTypes

-----------------------------------------------------------------------------
(* The stack of operands *)

LEMMA StackIs ==
    ASSUME NEW s \in Seq(Value), NEW d \in Nat, Len(s) = d, NEW n \in 0..d, NEW v \in Value
    PROVE  /\ Append(SubSeq(s, 1, d - n), v) \in Seq(Value)
           /\ Len(Append(SubSeq(s, 1, d - n), v)) = d - n + 1
           /\ \A k \in 1..(d - n) : Append(SubSeq(s, 1, d - n), v)[k] = s[k]
           /\ Append(SubSeq(s, 1, d - n), v)[d - n + 1] = v
<1> DEFINE below == SubSeq(s, 1, d - n)
<1>1. below \in Seq(Value) /\ Len(below) = d - n /\ \A k \in 1..(d - n) : below[k] = s[k]
  OBVIOUS
<1>2. d - n \in Nat
  OBVIOUS
<1> DEFINE e == d - n
<1> HIDE DEF below, e
<1>3. e \in Nat /\ Len(below) = e
  BY <1>1, <1>2 DEF e
<1>4. /\ Append(below, v) \in Seq(Value) /\ Len(Append(below, v)) = e + 1
      /\ \A k \in 1..e : Append(below, v)[k] = below[k]
      /\ Append(below, v)[e + 1] = v
  BY <1>1, <1>3
<1>5. QED
  BY <1>1, <1>4 DEF below, e

LEMMA DepthIs == ASSUME TypeOK PROVE Depth \in Nat /\ \A k \in 1..Depth : values[k] \in Value
BY DEF TypeOK, Depth

\* An operand is typed, and in a plain program its two types agree.
LEMMA OperandIs ==
    ASSUME IInv, Accepted, NEW k \in 0..(Depth - 1)
    PROVE  /\ Operand(k) \in Value
           /\ Operand(k).type \in AllTypes /\ Operand(k).ir \in IrTypes
           /\ Operand(k).name \in Names \cup {"none"}
           /\ NumberOrText(Operand(k).type) => Operand(k).ir # "void"
           /\ BoolIsBit(Operand(k).type, Operand(k).ir)
           /\ SignaturesMatch /\ plain => Operand(k).ir = IrType(Operand(k).type)
           /\ Operand(k).name # "none" =>
                 /\ Operand(k).type = locals[Operand(k).name].type
                 /\ Operand(k).ir = locals[Operand(k).name].ir
<1>1. Depth \in Nat /\ Depth - k \in 1..Depth
  BY DepthIs DEF IInv
<1>2. Operand(k) \in Value
  BY <1>1, DepthIs DEF IInv, Operand
<1>3. /\ Operand(k).type \in AllTypes /\ Operand(k).ir \in IrTypes
      /\ Operand(k).name \in Names \cup {"none"}
  BY <1>2 DEF Value
<1>4. NumberOrText(Operand(k).type) => Operand(k).ir # "void"
  BY <1>1 DEF IInv, NumbersHaveValues, Operand, NumberOrText
<1>5. BoolIsBit(Operand(k).type, Operand(k).ir)
  BY <1>1 DEF IInv, BoolsAreBits, Operand, BoolIsBit
<1>6. SignaturesMatch /\ plain => Operand(k).ir = IrType(Operand(k).type)
  BY <1>1 DEF IInv, PlainAgrees, Operand
<1>7. Operand(k).name # "none" =>
        /\ Operand(k).type = locals[Operand(k).name].type
        /\ Operand(k).ir = locals[Operand(k).name].ir
  BY <1>1 DEF IInv, NamesAreLocals, Operand
<1>8. QED
  BY <1>2, <1>3, <1>4, <1>5, <1>6, <1>7

-----------------------------------------------------------------------------
(* Steps *)

LEMMA ConstantsAre ==
    /\ NoStore \in Store /\ Undeclared \in Local
    /\ Undeclared.ir = "void" /\ Undeclared.type = "void"
    /\ NoStore.ir = "void" /\ NoStore.into = "void"
BY DEF NoStore, Store, Undeclared, Local, AllTypes, IrTypes

LEMMA InitInv == Init => IInv
<1> SUFFICES ASSUME Init PROVE IInv
  OBVIOUS
<1>1. /\ returns \in Written /\ values = <<>> /\ rejected = FALSE /\ malformed = FALSE
      /\ store = NoStore /\ plain = TRUE
  BY DEF Init
<1>2. PICK params \in [Names -> Written \cup {"none"}] :
        locals = [x \in Names |-> IF params[x] \in {"none", "void"} THEN Undeclared
                                  ELSE [type |-> params[x], ir |-> IrType(params[x])]]
  BY DEF Init
<1>3. ASSUME NEW x \in Names
      PROVE  /\ locals[x] \in Local /\ locals[x].ir = IrType(locals[x].type)
             /\ locals[x].ir = "void" => locals[x].type = "void"
             /\ locals[x].type = "bool" => locals[x].ir = "i1"
  <2>1. CASE params[x] \in {"none", "void"}
    <3>1. locals[x] = Undeclared
      BY <1>2, <2>1
    <3>2. "void" \in AllTypes
      BY DEF AllTypes
    <3>3. IrType("void") = "void"
      BY <3>2, IrTypeIs
    <3>4. QED
      BY <3>1, <3>3, ConstantsAre
  <2>2. CASE params[x] \notin {"none", "void"}
    <3>1. params[x] \in AllTypes
      BY <1>2, <2>2, ParametersAssumption
    <3>2. locals[x] = [type |-> params[x], ir |-> IrType(params[x])]
      BY <1>2, <2>2
    <3>3. QED
      BY <2>2, <3>1, <3>2, IrTypeIs DEF Local
  <2>3. QED
    BY <2>1, <2>2
<1>4. locals \in [Names -> Local]
  BY <1>2, <1>3
<1>5. values \in Seq(Value) /\ Depth = 0
  BY <1>1 DEF Depth
<1>6. \A k \in 1..Depth : FALSE
  BY <1>5
<1>7. TypeOK
  BY <1>1, <1>4, <1>5, ParametersAssumption, ConstantsAre DEF TypeOK
<1>8. LocalsHaveRoom /\ LocalBoolsAreBits
  BY <1>3 DEF LocalsHaveRoom, LocalBoolsAreBits
<1>9. NamesAreLocals /\ NumbersHaveValues /\ BoolsAreBits
  BY <1>6 DEF NamesAreLocals, NumbersHaveValues, BoolsAreBits
<1>10. PlainAgrees
  BY <1>1, <1>3, <1>6, ConstantsAre DEF PlainAgrees
<1>11. QED
  BY <1>7, <1>8, <1>9, <1>10 DEF IInv

\* A visit that is rejected is the last one.
LEMMA RejectInv ==
    ASSUME IInv, Reject, plain' \in BOOLEAN, plain' => plain
    PROVE  IInv'
<1>1. /\ rejected' = TRUE /\ store' = NoStore
      /\ locals' = locals /\ returns' = returns /\ values' = values /\ malformed' = malformed
  BY DEF Reject
<1>2. TypeOK'
  BY <1>1, ConstantsAre DEF IInv, TypeOK
<1>3. ~Accepted'
  BY <1>1 DEF Accepted
<1>4. Depth' = Depth
  BY <1>1 DEF Depth
<1>5. LocalsHaveRoom' /\ NamesAreLocals' /\ NumbersHaveValues'
  BY <1>1, <1>3, <1>4 DEF IInv, LocalsHaveRoom, NamesAreLocals, NumbersHaveValues
<1>6. (SignaturesMatch => (plain => PlainAgrees))'
  BY <1>1, <1>3, ConstantsAre DEF IInv, PlainAgrees, SignaturesMatch
<1>7. ("inferred" \notin Shapes => BoolsAreBits /\ LocalBoolsAreBits)'
  BY <1>1, <1>3 DEF IInv, BoolsAreBits, LocalBoolsAreBits
<1>8. QED
  BY <1>2, <1>5, <1>6, <1>7 DEF IInv

\* What a visit of an expression has to show: it replaces n operands by v.
PushesSound(n, v) ==
    /\ v \in Value
    /\ values' = Append(Without(n), v)
    /\ locals' = locals /\ returns' = returns /\ rejected' = rejected
    /\ malformed' \in BOOLEAN /\ store' \in Store /\ plain' \in BOOLEAN /\ (plain' => plain)
    /\ NumberOrText(v.type) => v.ir # "void"
    /\ BoolIsBit(v.type, v.ir)
    /\ v.name # "none" => v.type = locals[v.name].type /\ v.ir = locals[v.name].ir
    /\ SignaturesMatch /\ plain' =>
          v.ir = IrType(v.type) /\ ~malformed' /\ Bytes(store'.ir) = Bytes(store'.into)

LEMMA PushInv ==
    ASSUME IInv, Accepted, NEW n \in 0..Depth, NEW v, PushesSound(n, v)
    PROVE  IInv'
<1>1. /\ v \in Value
      /\ values' = Append(Without(n), v)
      /\ locals' = locals /\ returns' = returns /\ rejected' = rejected
      /\ malformed' \in BOOLEAN /\ store' \in Store /\ plain' \in BOOLEAN /\ (plain' => plain)
  BY DEF PushesSound
<1>2. Depth \in Nat /\ values \in Seq(Value)
  BY DepthIs DEF IInv, TypeOK
<1>3. /\ values' \in Seq(Value) /\ Depth' = Depth - n + 1
      /\ \A k \in 1..(Depth - n) : values'[k] = values[k]
      /\ values'[Depth - n + 1] = v
  <2>1. Len(values) = Depth
    BY DEF Depth
  <2> DEFINE new == Append(SubSeq(values, 1, Depth - n), v)
  <2>2. /\ new \in Seq(Value) /\ Len(new) = Depth - n + 1
        /\ \A k \in 1..(Depth - n) : new[k] = values[k]
        /\ new[Depth - n + 1] = v
    BY <1>1, <1>2, <2>1, StackIs
  <2>3. values' = new
    BY <1>1 DEF Without
  <2> HIDE DEF new
  <2>4. Depth' = Len(values')
    BY DEF Depth
  <2>5. QED
    BY <2>2, <2>3, <2>4
<1>4. ASSUME NEW k \in 1..Depth'
      PROVE  \/ k \in 1..Depth /\ k \in 1..(Depth - n) /\ values'[k] = values[k]
             \/ values'[k] = v
  <2>1. CASE k = Depth - n + 1
    BY <1>3, <2>1
  <2>2. CASE k # Depth - n + 1
    <3> SUFFICES ASSUME NEW d \in Nat, d = Depth, k \in 1..(d - n + 1)
                 PROVE  k \in 1..(d - n) /\ k \in 1..d /\ values'[k] = values[k]
      BY <1>2, <1>3, <1>4
    <3>1. n \in 0..d /\ k # d - n + 1
      BY <2>2
    <3>2. k \in 1..(d - n) /\ k \in 1..d
      BY <3>1
    <3>3. QED
      BY <1>3, <3>2
  <2>3. QED
    BY <2>1, <2>2
<1>5. TypeOK'
  BY <1>1, <1>3 DEF IInv, TypeOK
<1>6. LocalsHaveRoom'
  BY <1>1 DEF IInv, LocalsHaveRoom
<1>7. NamesAreLocals'
  <2> SUFFICES ASSUME NEW k \in 1..Depth', values'[k].name # "none"
               PROVE  /\ values'[k].type = locals[values'[k].name].type
                      /\ values'[k].ir = locals[values'[k].name].ir
    BY <1>1 DEF NamesAreLocals
  <2>1. CASE k \in 1..Depth /\ values'[k] = values[k]
    BY <2>1 DEF IInv, NamesAreLocals
  <2>2. CASE values'[k] = v
    BY <2>2 DEF PushesSound
  <2>3. QED
    BY <1>4, <2>1, <2>2
<1>8. NumbersHaveValues'
  <2> SUFFICES ASSUME NEW k \in 1..Depth', NumberOrText(values'[k].type)
               PROVE  values'[k].ir # "void"
    BY DEF NumbersHaveValues, NumberOrText
  <2>1. CASE k \in 1..Depth /\ values'[k] = values[k]
    BY <2>1 DEF IInv, NumbersHaveValues, NumberOrText
  <2>2. CASE values'[k] = v
    BY <2>2 DEF PushesSound
  <2>3. QED
    BY <1>4, <2>1, <2>2
<1>9. ASSUME SignaturesMatch, plain' PROVE PlainAgrees'
  <2>1. PlainAgrees
    BY <1>1, <1>9 DEF IInv
  <2>2. v.ir = IrType(v.type) /\ ~malformed' /\ Bytes(store'.ir) = Bytes(store'.into)
    BY <1>9 DEF PushesSound
  <2>3. ASSUME NEW k \in 1..Depth' PROVE values'[k].ir = IrType(values'[k].type)
    <3>1. CASE k \in 1..Depth /\ values'[k] = values[k]
      BY <2>1, <3>1 DEF PlainAgrees
    <3>2. CASE values'[k] = v
      BY <2>2, <3>2
    <3>3. QED
      BY <1>4, <3>1, <3>2
  <2>4. QED
    BY <1>1, <2>1, <2>2, <2>3 DEF PlainAgrees
<1>10. ASSUME "inferred" \notin Shapes PROVE BoolsAreBits' /\ LocalBoolsAreBits'
  <2>1. BoolsAreBits /\ LocalBoolsAreBits
    BY <1>10 DEF IInv
  <2>2. ASSUME NEW k \in 1..Depth', values'[k].type = "bool"
        PROVE  values'[k].ir \in {"i1", "void"}
    <3>1. CASE k \in 1..Depth /\ values'[k] = values[k]
      BY <2>1, <2>2, <3>1 DEF BoolsAreBits
    <3>2. CASE values'[k] = v
      BY <1>10, <2>2, <3>2 DEF PushesSound, BoolIsBit
    <3>3. QED
      BY <1>4, <3>1, <3>2
  <2>3. QED
    BY <1>1, <2>1, <2>2 DEF BoolsAreBits, LocalBoolsAreBits
<1>11. QED
  BY <1>5, <1>6, <1>7, <1>8, <1>9, <1>10 DEF IInv, SignaturesMatch

\* What a statement has to show: it leaves no operand, and its variables are sound.
EmptiesSound ==
    /\ values' = <<>>
    /\ locals' \in [Names -> Local] /\ returns' = returns /\ rejected' = rejected
    /\ malformed' \in BOOLEAN /\ store' \in Store /\ plain' \in BOOLEAN /\ (plain' => plain)
    /\ \A x \in Names :
          /\ locals'[x].ir = "void" => locals'[x].type = "void"
          /\ "inferred" \notin Shapes => (locals'[x].type = "bool" => locals'[x].ir = "i1")
          /\ SignaturesMatch /\ plain' => locals'[x].ir = IrType(locals'[x].type)
    /\ SignaturesMatch /\ plain' => ~malformed' /\ Bytes(store'.ir) = Bytes(store'.into)

LEMMA EmptyInv == ASSUME IInv, EmptiesSound PROVE IInv'
<1>1. values' \in Seq(Value) /\ Depth' = 0
  BY DEF EmptiesSound, Depth
<1>2. \A k \in 1..Depth' : FALSE
  BY <1>1
<1>3. TypeOK'
  BY <1>1 DEF EmptiesSound, IInv, TypeOK
<1>4. LocalsHaveRoom'
  BY DEF EmptiesSound, LocalsHaveRoom
<1>5. NamesAreLocals' /\ NumbersHaveValues' /\ BoolsAreBits'
  BY <1>2 DEF NamesAreLocals, NumbersHaveValues, BoolsAreBits
<1>6. "inferred" \notin Shapes => LocalBoolsAreBits'
  BY DEF EmptiesSound, LocalBoolsAreBits
<1>7. SignaturesMatch /\ plain' => PlainAgrees'
  BY <1>2 DEF EmptiesSound, PlainAgrees
<1>8. QED
  BY <1>3, <1>4, <1>5, <1>6, <1>7 DEF IInv, SignaturesMatch

\* A statement that leaves the variables alone.
LEMMA LocalsStay ==
    ASSUME IInv, locals' = locals, plain' => plain
    PROVE  /\ locals' \in [Names -> Local]
           /\ \A x \in Names :
                /\ locals'[x].ir = "void" => locals'[x].type = "void"
                /\ "inferred" \notin Shapes => (locals'[x].type = "bool" => locals'[x].ir = "i1")
                /\ SignaturesMatch /\ plain' => locals'[x].ir = IrType(locals'[x].type)
BY DEF IInv, TypeOK, LocalsHaveRoom, LocalBoolsAreBits, PlainAgrees

-----------------------------------------------------------------------------
(* Expressions *)

\* What is pushed as the value of a node that is not a name.
LEMMA NewValueIs ==
    ASSUME NEW n \in 0..Depth, NEW type \in AllTypes, NEW ir \in IrTypes
    PROVE  LET v == [type |-> type, ir |-> ir, name |-> "none"]
           IN /\ v \in Value /\ v.type = type /\ v.ir = ir /\ v.name = "none"
              /\ Pushed(n, type, ir) = Append(Without(n), v)
BY DEF Value, Pushed

LEMMA ShapesAre ==
    ASSUME IInv, NEW shapes, Unusual(shapes)
    PROVE  /\ plain' \in BOOLEAN /\ (plain' => plain)
           /\ plain' => shapes = {}
           /\ shapes \subseteq Shapes
BY DEF Unusual, IInv, TypeOK

LEMMA LiteralInv ==
    ASSUME IInv, Accepted, NEW t \in {"i32", "f64", "str", "bool"}, Literal(t)
    PROVE  IInv'
<1> DEFINE v == [type |-> t, ir |-> IrType(t), name |-> "none"]
<1>1. /\ values' = Pushed(0, t, IrType(t))
      /\ locals' = locals /\ returns' = returns /\ rejected' = rejected /\ malformed' = malformed
      /\ store' = NoStore /\ plain' = plain
  BY DEF Literal, Fine, Silent
<1>2. t \in AllTypes
  BY DEF AllTypes, SignedTypes
<1>3. /\ IrType(t) \in IrTypes /\ IrType(t) # "void" /\ (t = "bool" => IrType(t) = "i1")
  BY <1>2, IrTypeIs
<1>4. 0 \in 0..Depth
  BY DepthIs DEF IInv
<1>5. /\ v \in Value /\ v.type = t /\ v.ir = IrType(t) /\ v.name = "none"
      /\ values' = Append(Without(0), v)
  BY <1>1, <1>2, <1>3, <1>4, NewValueIs
<1>6. malformed = FALSE /\ plain \in BOOLEAN
  BY DEF Accepted, IInv, TypeOK
<1> HIDE DEF v
<1>7. PushesSound(0, v)
  BY <1>1, <1>3, <1>5, <1>6, ConstantsAre DEF PushesSound, BoolIsBit
<1>8. QED
  BY <1>4, <1>7, PushInv

LEMMA IdentifierInv ==
    ASSUME IInv, Accepted, NEW x \in Names, Identifier(x)
    PROVE  IInv'
<1> DEFINE v == [type |-> locals[x].type, ir |-> locals[x].ir, name |-> x]
<1>1. /\ values' = Append(values, v)
      /\ locals' = locals /\ returns' = returns /\ rejected' = rejected /\ malformed' = malformed
      /\ store' = NoStore /\ plain' = plain
  BY DEF Identifier, Fine, Silent
<1>2. 0 \in 0..Depth /\ values \in Seq(Value)
  BY DepthIs DEF IInv, TypeOK
<1>3. Without(0) = values
  <2>1. Depth \in Nat /\ Depth - 0 = Depth
    BY DepthIs DEF IInv
  <2>2. SubSeq(values, 1, Depth) = values
    BY <1>2 DEF Depth
  <2>3. QED
    BY <2>1, <2>2 DEF Without
<1>4. locals[x] \in Local
  BY DEF IInv, TypeOK
<1>5. v \in Value /\ v.type = locals[x].type /\ v.ir = locals[x].ir /\ v.name = x
  BY <1>4 DEF Local, Value
<1>6. locals[x].type \in AllTypes /\ (NumberOrText(locals[x].type) => locals[x].ir # "void")
  <2>1. locals[x].type \in AllTypes
    BY <1>4 DEF Local
  <2>2. QED
    BY <2>1, IrTypeIs DEF IInv, LocalsHaveRoom
<1>7. malformed = FALSE /\ plain \in BOOLEAN
  BY DEF Accepted, IInv, TypeOK
<1>8. /\ BoolIsBit(locals[x].type, locals[x].ir)
      /\ SignaturesMatch /\ plain => locals[x].ir = IrType(locals[x].type)
  BY DEF IInv, LocalBoolsAreBits, BoolIsBit, PlainAgrees
<1> HIDE DEF v
<1>9. PushesSound(0, v)
  BY <1>1, <1>3, <1>5, <1>6, <1>7, <1>8, ConstantsAre DEF PushesSound
<1>10. QED
  BY <1>2, <1>9, PushInv

LEMMA UnaryExprInv ==
    ASSUME IInv, Accepted, NEW op \in UnaryOps, UnaryExpr(op)
    PROVE  IInv'
<1> DEFINE operand == Operand(0)
           type == UnaryType(operand.type, op)
           v == [type |-> type, ir |-> operand.ir, name |-> "none"]
<1>1. Depth \in Nat /\ 0 \in 0..(Depth - 1) /\ 1 \in 0..Depth
  <2>1. Depth \in Nat
    BY DepthIs DEF IInv
  <2>2. Depth >= 1
    BY DEF UnaryExpr
  <2>3. QED
    BY <2>1, <2>2
<1>2. /\ operand.type \in AllTypes /\ operand.ir \in IrTypes
      /\ NumberOrText(operand.type) => operand.ir # "void"
      /\ BoolIsBit(operand.type, operand.ir)
      /\ SignaturesMatch /\ plain => operand.ir = IrType(operand.type)
  BY <1>1, OperandIs
<1>3. CASE type = "void"
  <2>1. Reject /\ plain' = plain
    BY <1>3 DEF UnaryExpr
  <2>2. plain \in BOOLEAN
    BY DEF IInv, TypeOK
  <2>3. QED
    BY <2>1, <2>2, RejectInv
<1>4. CASE type # "void"
  <2>1. /\ values' = Pushed(1, type, operand.ir)
        /\ Verifies(\/ operand.ir = "void" \/ IrInteger(operand.ir)
                    \/ op = "neg" /\ IrFloat(operand.ir))
        /\ store' = NoStore /\ locals' = locals /\ returns' = returns /\ plain' = plain
    BY <1>4 DEF UnaryExpr, Silent
  <2>2. /\ type = operand.type
        /\ (op = "neg" /\ Numeric(type)) \/ type = "bool" \/ Integer(type)
    BY <1>4 DEF UnaryType
  <2>3. /\ v \in Value /\ v.type = type /\ v.ir = operand.ir /\ v.name = "none"
        /\ values' = Append(Without(1), v)
    BY <1>1, <1>2, <2>1, <2>2, NewValueIs
  <2>4. rejected' = rejected /\ malformed' \in BOOLEAN /\ plain \in BOOLEAN
    BY <2>1 DEF Verifies, IInv, TypeOK
  <2>5. SignaturesMatch /\ plain => ~malformed'
    <3>1. SUFFICES ASSUME SignaturesMatch, plain
                   PROVE  IrInteger(operand.ir) \/ (op = "neg" /\ IrFloat(operand.ir))
      BY <2>1 DEF Verifies
    <3>2. operand.ir = IrType(operand.type)
      BY <1>2, <3>1
    <3>3. CASE op = "neg" /\ Numeric(type)
      BY <1>2, <2>2, <3>2, <3>3, IrTypeIs
    <3>4. CASE Integer(type)
      BY <1>2, <2>2, <3>2, <3>4, IrTypeIs
    <3>5. CASE type = "bool"
      <4>1. operand.ir = "i1"
        BY <1>2, <2>2, <3>2, <3>5, IrTypeIs
      <4>2. QED
        BY <4>1 DEF IrInteger
    <3>6. QED
      BY <2>2, <3>3, <3>4, <3>5
  <2> HIDE DEF v, type, operand
  <2>6. PushesSound(1, v)
    BY <1>2, <2>1, <2>2, <2>3, <2>4, <2>5, ConstantsAre DEF PushesSound
  <2>7. QED
    BY <1>1, <2>6, PushInv
<1>5. QED
  BY <1>3, <1>4

LEMMA BinaryExprInv ==
    ASSUME IInv, Accepted, NEW op \in BinaryOps, BinaryExpr(op)
    PROVE  IInv'
<1> DEFINE left == Operand(1)
           right == Operand(0)
           type == BinaryType(left.type, right.type, op)
           none == left.ir = "void" \/ right.ir = "void"
           ir == IF none THEN "void" ELSE BinaryIr(left.ir, op)
           v == [type |-> type, ir |-> ir, name |-> "none"]
           mixed == \/ IrType(left.type) # IrType(right.type)
                    \/ op # "compare" /\ IrType(type) \notin {IrType(left.type), "void"}
           notNumbers == op = "compare" /\ ~IrInteger(IrType(left.type)) /\ ~Float(left.type)
           floatRem == op = "rem" /\ Float(left.type)
           shapes == If("mixed", mixed) \cup If("notNumbers", notNumbers)
                     \cup If("floatRem", floatRem)
<1>1. Depth \in Nat /\ 0 \in 0..(Depth - 1) /\ 1 \in 0..(Depth - 1) /\ 2 \in 0..Depth
  <2>1. Depth \in Nat
    BY DepthIs DEF IInv
  <2>2. Depth >= 2
    BY DEF BinaryExpr
  <2>3. QED
    BY <2>1, <2>2
<1>2. /\ left.type \in AllTypes /\ left.ir \in IrTypes
      /\ NumberOrText(left.type) => left.ir # "void"
      /\ BoolIsBit(left.type, left.ir)
      /\ SignaturesMatch /\ plain => left.ir = IrType(left.type)
  BY <1>1, OperandIs
<1>3. /\ right.type \in AllTypes /\ right.ir \in IrTypes
      /\ NumberOrText(right.type) => right.ir # "void"
      /\ BoolIsBit(right.type, right.ir)
      /\ SignaturesMatch /\ plain => right.ir = IrType(right.type)
  BY <1>1, OperandIs
<1>4. /\ Unusual(shapes)
      /\ \/ type = "void" /\ Reject
         \/ /\ type # "void"
            /\ values' = Pushed(2, type, ir)
            /\ Verifies(none \/ WellFormed(left.ir, right.ir, op))
            /\ store' = NoStore /\ locals' = locals /\ returns' = returns
  BY DEF BinaryExpr, Silent
<1>5. /\ plain' \in BOOLEAN /\ (plain' => plain)
      /\ plain' => ~mixed /\ ~notNumbers /\ ~floatRem
  <2>1. plain' \in BOOLEAN /\ (plain' => plain) /\ (plain' => shapes = {})
    <3> HIDE DEF shapes
    <3>1. QED
      BY <1>4, ShapesAre
  <2> HIDE DEF mixed, notNumbers, floatRem
  <2>2. shapes = {} => ~mixed /\ ~notNumbers /\ ~floatRem
    BY DEF If
  <2>3. QED
    BY <2>1, <2>2
<1>6. CASE type = "void"
  BY <1>4, <1>5, <1>6, RejectInv
<1>7. CASE type # "void"
  <2>1. /\ type \in AllTypes
        /\ op = "compare" => type = "bool"
        /\ op = "logic" => type = "bool" /\ left.type = "bool" /\ right.type = "bool"
        /\ op = "bits" => Integer(left.type) /\ Integer(right.type)
        /\ op \in {"arith", "rem"} => Numeric(left.type) /\ Numeric(right.type)
        /\ op \in {"arith", "rem", "bits"} => Numeric(type)
    <3>1. left.type \in AllTypes /\ right.type \in AllTypes /\ BinaryType(left.type, right.type, op) # "void"
      BY <1>2, <1>3, <1>7
    <3> HIDE DEF left, right
    <3>2. QED
      BY <3>1, BinaryTypeIs
  <2>2. ir \in IrTypes
    BY <1>2 DEF BinaryIr, IrTypes
  <2>3. /\ values' = Pushed(2, type, ir)
        /\ Verifies(none \/ WellFormed(left.ir, right.ir, op))
        /\ store' = NoStore /\ locals' = locals /\ returns' = returns
    BY <1>4, <1>7
  <2>4. /\ v \in Value /\ v.type = type /\ v.ir = ir /\ v.name = "none"
        /\ values' = Append(Without(2), v)
    <3> HIDE DEF type, ir
    <3>1. QED
      BY <1>1, <2>1, <2>2, <2>3, NewValueIs
  <2>5. rejected' = rejected /\ malformed' \in BOOLEAN
    BY <2>3 DEF Verifies
  <2>6. op \in {"arith", "rem", "bits"} \/ op = "compare" \/ op = "logic"
    BY DEF BinaryOps
  <2>7. NumberOrText(type) => ir # "void"
    <3>1. CASE op \in {"arith", "rem", "bits"}
      <4>1. NumberOrText(left.type) /\ NumberOrText(right.type)
        BY <2>1, <3>1 DEF NumberOrText, Numeric
      <4>2. ~none /\ op # "compare"
        BY <1>2, <1>3, <3>1, <4>1
      <4>3. QED
        BY <1>2, <4>1, <4>2 DEF BinaryIr
    <3>2. CASE op = "compare" \/ op = "logic"
      BY <2>1, <3>2, IrTypeIs
    <3>3. QED
      BY <2>6, <3>1, <3>2
  <2>8. BoolIsBit(type, ir)
    <3> SUFFICES ASSUME "inferred" \notin Shapes, type = "bool" PROVE ir \in {"i1", "void"}
      BY DEF BoolIsBit
    <3>1. CASE op = "compare"
      BY <3>1 DEF BinaryIr
    <3>2. CASE op = "logic"
      BY <1>2, <2>1, <3>2 DEF BinaryIr, BoolIsBit
    <3>3. CASE op \in {"arith", "rem", "bits"}
      <4>1. NumberOrText(type)
        BY <2>1, <3>3 DEF NumberOrText
      <4>2. FALSE
        BY <2>1, <4>1, IrTypeIs
      <4>3. QED
        BY <4>2
    <3>4. QED
      BY <2>6, <3>1, <3>2, <3>3
  <2>9. ASSUME SignaturesMatch, plain' PROVE ir = IrType(type) /\ ~malformed'
    <3>1. /\ left.ir = IrType(left.type) /\ right.ir = IrType(right.type)
          /\ left.ir = right.ir
          /\ ~mixed /\ ~notNumbers /\ ~floatRem
      BY <1>2, <1>3, <1>5, <2>9
    <3>2. /\ Numeric(left.type) => IrInteger(left.ir) \/ IrFloat(left.ir)
          /\ Integer(left.type) => IrInteger(left.ir)
          /\ left.type = "bool" => IrInteger(left.ir)
          /\ IrFloat(left.ir) <=> Float(left.type)
      <4>1. left.type = "bool" => left.ir = "i1"
        BY <1>2, <3>1, IrTypeIs
      <4>2. QED
        BY <1>2, <3>1, <4>1, IrTypeIs DEF IrInteger
    <3>3. IrInteger(left.ir) \/ (IrFloat(left.ir) /\ op \in {"arith", "compare"})
      <4>1. CASE op \in {"arith", "rem"}
        BY <2>1, <3>1, <3>2, <4>1
      <4>2. CASE op = "compare"
        BY <3>1, <3>2, <4>2
      <4>3. CASE op \in {"logic", "bits"}
        BY <2>1, <3>2, <4>3
      <4>4. QED
        BY <2>6, <4>1, <4>2, <4>3
    <3>4. left.ir # "void"
      BY <3>3 DEF IrInteger, IrFloat
    <3>5. ~none
      BY <3>1, <3>4
    <3>6. ~malformed'
      BY <2>3, <3>1, <3>3 DEF Verifies, WellFormed
    <3>7. ir = IrType(type)
      <4>1. CASE op = "compare"
        <5>1. type = "bool" /\ ir = "i1"
          BY <2>1, <3>5, <4>1 DEF BinaryIr
        <5>2. QED
          BY <2>1, <5>1, IrTypeIs
      <4>2. CASE op # "compare"
        <5>1. IrType(type) # "void"
          BY <1>7, <2>1, IrTypeIs
        <5>2. IrType(type) = IrType(left.type)
          BY <3>1, <4>2, <5>1
        <5>3. QED
          BY <3>1, <3>5, <4>2, <5>2 DEF BinaryIr
      <4>3. QED
        BY <4>1, <4>2
    <3>8. QED
      BY <3>6, <3>7
  <2> HIDE DEF v, type, ir, none, mixed, notNumbers, floatRem, left, right
  <2>10. PushesSound(2, v)
    BY <1>5, <2>3, <2>4, <2>5, <2>7, <2>8, <2>9, ConstantsAre DEF PushesSound
  <2>11. QED
    BY <1>1, <2>10, PushInv
<1>8. QED
  BY <1>6, <1>7

LEMMA StoredIs ==
    ASSUME NEW type \in AllTypes, NEW ir \in IrTypes, NEW into \in IrTypes, Stored(type, ir, into)
    PROVE  /\ store' \in Store
           /\ ir = into => Bytes(store'.ir) = Bytes(store'.into)
<1>1. CASE ir = "void"
  BY <1>1, ConstantsAre DEF Stored
<1>2. CASE ir # "void"
  BY <1>2 DEF Stored, Store
<1>3. QED
  BY <1>1, <1>2

LEMMA AssignInv == ASSUME IInv, Accepted, Assign PROVE IInv'
<1> DEFINE left == Operand(1)
           right == Operand(0)
           converted == IrType(left.type) # IrType(right.type)
           none == left.ir = "void" \/ right.ir = "void"
           ir == IF none THEN "void" ELSE right.ir
           v == [type |-> right.type, ir |-> ir, name |-> "none"]
           wrong == ~Compatible(left.type, right.type) \/ right.type = "void" \/ left.name = "none"
<1>1. Depth \in Nat /\ 0 \in 0..(Depth - 1) /\ 1 \in 0..(Depth - 1) /\ 2 \in 0..Depth
  <2>1. Depth \in Nat
    BY DepthIs DEF IInv
  <2>2. Depth >= 2
    BY DEF Assign
  <2>3. QED
    BY <2>1, <2>2
<1>2. /\ left.type \in AllTypes /\ left.ir \in IrTypes /\ left.name \in Names \cup {"none"}
      /\ NumberOrText(left.type) => left.ir # "void"
      /\ SignaturesMatch /\ plain => left.ir = IrType(left.type)
      /\ left.name # "none" => left.type = locals[left.name].type /\ left.ir = locals[left.name].ir
  BY <1>1, OperandIs
<1>3. /\ right.type \in AllTypes /\ right.ir \in IrTypes
      /\ NumberOrText(right.type) => right.ir # "void"
      /\ BoolIsBit(right.type, right.ir)
      /\ SignaturesMatch /\ plain => right.ir = IrType(right.type)
  BY <1>1, OperandIs
<1>4. /\ Unusual(If("converted", converted))
      /\ \/ wrong /\ Reject
         \/ /\ ~wrong
            /\ values' = Pushed(2, right.type, ir)
            /\ Stored(left.type, right.ir, locals[left.name].ir)
            /\ rejected' = rejected /\ malformed' = malformed
            /\ locals' = locals /\ returns' = returns
  BY DEF Assign, Fine
<1>5. /\ plain' \in BOOLEAN /\ (plain' => plain)
      /\ plain' => ~converted
  <2> HIDE DEF converted
  <2> DEFINE shapes == If("converted", converted)
  <2>1. plain' \in BOOLEAN /\ (plain' => plain) /\ (plain' => shapes = {})
    <3>1. Unusual(shapes)
      BY <1>4
    <3> HIDE DEF shapes
    <3>2. QED
      BY <3>1, ShapesAre
  <2>2. shapes = {} => ~converted
    BY DEF If
  <2>3. QED
    BY <2>1, <2>2
<1>6. CASE wrong /\ Reject
  BY <1>5, <1>6, RejectInv
<1>7. CASE ~wrong /\ ~ (wrong /\ Reject)
  <2>1. /\ values' = Pushed(2, right.type, ir)
        /\ Stored(left.type, right.ir, left.ir)
        /\ rejected' = rejected /\ malformed' = malformed
        /\ locals' = locals /\ returns' = returns
    BY <1>2, <1>4, <1>7
  <2>2. ir \in IrTypes
    BY <1>3 DEF IrTypes
  <2>3. /\ v \in Value /\ v.type = right.type /\ v.ir = ir /\ v.name = "none"
        /\ values' = Append(Without(2), v)
    <3> HIDE DEF ir, right
    <3>1. QED
      BY <1>1, <1>3, <2>1, <2>2, NewValueIs
  <2>4. store' \in Store /\ (right.ir = left.ir => Bytes(store'.ir) = Bytes(store'.into))
    <3> HIDE DEF left, right
    <3>1. QED
      BY <1>2, <1>3, <2>1, StoredIs
  <2>5. NumberOrText(right.type) => ir # "void"
    <3>1. NumberOrText(right.type) => NumberOrText(left.type)
      BY <1>2, <1>3, <1>7, CompatibleIs
    <3>2. QED
      BY <1>2, <1>3, <3>1
  <2>6. BoolIsBit(right.type, ir)
    BY <1>3 DEF BoolIsBit
  <2>7. malformed = FALSE
    BY DEF Accepted, IInv, TypeOK
  <2>8. ASSUME SignaturesMatch, plain'
        PROVE  ir = IrType(right.type) /\ Bytes(store'.ir) = Bytes(store'.into)
    <3>1. left.ir = right.ir /\ right.ir = IrType(right.type)
      BY <1>2, <1>3, <1>5, <2>8
    <3>2. right.ir # "void"
      BY <1>3, <1>7, <3>1, IrTypeIs
    <3>3. QED
      BY <2>4, <3>1, <3>2
  <2> HIDE DEF v, ir, none, converted, wrong, left, right
  <2>9. PushesSound(2, v)
    BY <1>5, <2>1, <2>3, <2>4, <2>5, <2>6, <2>7, <2>8 DEF PushesSound
  <2>10. QED
    BY <1>1, <2>9, PushInv
<1>8. QED
  BY <1>4, <1>6, <1>7

\* Arguments of the parameters' types have values, so all of them are passed.
LEMMA AllArePassed ==
    ASSUME NEW f \in Called, NEW n \in Nat, NEW irs, Take(Library[f].params, 1..n, irs)
    PROVE  \A k \in 1..n : irs[k] # "void"
<1> SUFFICES ASSUME NEW k \in 1..n PROVE irs[k] # "void"
  OBVIOUS
<1> DEFINE place == Cardinality({j \in 1..n : j <= k})
           params == Library[f].params
<1>1. {j \in 1..n : j <= k} = 1..k
  OBVIOUS
<1>2. place = k /\ Cardinality(1..n) = n
  <2>1. 1 \in Int /\ n \in Int /\ k \in Int /\ ~ (1 > k) /\ ~ (1 > n)
    OBVIOUS
  <2>2. \A a, b \in Int : Cardinality(a..b) = IF a > b THEN 0 ELSE b - a + 1
    BY FS_Interval
  <2>3. Cardinality(1..k) = k - 1 + 1 /\ Cardinality(1..n) = n - 1 + 1
    BY <2>1, <2>2
  <2>4. place = Cardinality(1..k)
    BY <1>1, Zenon
  <2> HIDE DEF place
  <2>5. k - 1 + 1 = k /\ n - 1 + 1 = n
    BY <2>1
  <2>6. QED
    BY <2>3, <2>4, <2>5, Zenon
<1>3. Len(params) = n /\ Argument(irs[k], params[place]) = params[place]
  BY <1>2 DEF Take
<1>4. params[k] # "void"
  <2>1. k \in 1..Len(params)
    BY <1>3
  <2>2. QED
    BY <2>1, LibraryIs
<1>5. QED
  BY <1>2, <1>3, <1>4 DEF Argument

LEMMA CallExprInv ==
    ASSUME IInv, Accepted, NEW f \in Called, NEW n \in Nat, CallExpr(f, n)
    PROVE  IInv'
<1> DEFINE sig == Library[f]
           built == [k \in 1..n |-> Operand(n - k).ir]
           checked == [k \in 1..n |-> IrType(Operand(n - k).type)]
           odd == ~Take(sig.params, 1..n, checked)
           passed == {k \in 1..n : built[k] # "void"}
           v == [type |-> sig.type, ir |-> sig.ir, name |-> "none"]
<1>1. Depth \in Nat /\ n \in 0..Depth
  <2>1. Depth \in Nat /\ Depth >= n
    BY DepthIs DEF IInv, CallExpr
  <2>2. QED
    BY <2>1
<1>2. /\ sig.type \in AllTypes /\ sig.ir \in IrTypes
      /\ NumberOrText(sig.type) => sig.ir # "void"
      /\ sig.type # "bool"
  BY LibraryIs
<1>3. /\ Unusual(If("oddArguments", odd))
      /\ values' = Pushed(n, sig.type, sig.ir)
      /\ Verifies(Take(sig.params, passed, built))
      /\ store' = NoStore /\ locals' = locals /\ returns' = returns
  BY DEF CallExpr, Silent
<1>4. /\ plain' \in BOOLEAN /\ (plain' => plain)
      /\ plain' => ~odd
  <2> HIDE DEF odd
  <2> DEFINE shapes == If("oddArguments", odd)
  <2>1. plain' \in BOOLEAN /\ (plain' => plain) /\ (plain' => shapes = {})
    <3>1. Unusual(shapes)
      BY <1>3
    <3> HIDE DEF shapes
    <3>2. QED
      BY <3>1, ShapesAre
  <2>2. shapes = {} => ~odd
    BY DEF If
  <2>3. QED
    BY <2>1, <2>2
<1>5. ASSUME SignaturesMatch, plain' PROVE ~malformed'
  <2>1. ASSUME NEW k \in 1..n PROVE Operand(n - k).ir = IrType(Operand(n - k).type)
    <3>1. n - k \in 0..(Depth - 1)
      BY <1>1
    <3>2. QED
      BY <1>4, <1>5, <3>1, OperandIs
  <2>2. built = checked
    BY <2>1
  <2>3. Take(sig.params, 1..n, built)
    BY <1>4, <1>5, <2>2
  <2> HIDE DEF built
  <2>4. \A k \in 1..n : built[k] # "void"
    BY <2>3, AllArePassed
  <2>5. passed = 1..n
    BY <2>4
  <2>6. QED
    BY <1>3, <2>3, <2>5 DEF Verifies
<1> HIDE DEF sig, built, checked, passed, odd
<1>6. /\ v \in Value /\ v.type = sig.type /\ v.ir = sig.ir /\ v.name = "none"
      /\ values' = Append(Without(n), v)
  BY <1>1, <1>2, <1>3, NewValueIs
<1>7. rejected' = rejected /\ malformed' \in BOOLEAN
  BY <1>3 DEF Verifies
<1>8. SignaturesMatch => sig.ir = IrType(sig.type)
  BY DEF SignaturesMatch, sig
<1>9. BoolIsBit(sig.type, sig.ir)
  BY <1>2 DEF BoolIsBit
<1> HIDE DEF v
<1>10. PushesSound(n, v)
  BY <1>2, <1>3, <1>4, <1>5, <1>6, <1>7, <1>8, <1>9, ConstantsAre DEF PushesSound
<1>11. QED
  BY <1>1, <1>10, PushInv

-----------------------------------------------------------------------------
(* Statements *)

LEMMA VarDeclInv ==
    ASSUME IInv, Accepted, NEW x \in Names, NEW written \in Written \cup {"none"}, VarDecl(x, written)
    PROVE  IInv'
<1> DEFINE init == Operand(0)
           ir == DeclaredIr(written)
           type == SymbolType(written, init.type)
           inferred == written = "none" /\ IrType(init.type) # "i32"
           converted == written # "none" /\ IrType(init.type) # IrType(written)
           voidVariable == written = "void"
           shapes == If("inferred", inferred) \cup If("converted", converted)
                     \cup If("voidVariable", voidVariable)
<1>1. Depth \in Nat /\ 0 \in 0..(Depth - 1)
  BY DepthIs DEF IInv, VarDecl
<1>2. /\ init.type \in AllTypes /\ init.ir \in IrTypes
      /\ SignaturesMatch /\ plain => init.ir = IrType(init.type)
  BY <1>1, OperandIs
<1>3. written \in AllTypes \/ written = "none"
  BY ParametersAssumption
<1>4. /\ Unusual(shapes)
      /\ \/ Reject
         \/ /\ locals' = [locals EXCEPT ![x] = [type |-> type, ir |-> ir]]
            /\ Stored(type, init.ir, ir)
            /\ values' = <<>>
            /\ Verifies(written # "void") /\ returns' = returns
  BY DEF VarDecl
<1>5. /\ plain' \in BOOLEAN /\ (plain' => plain)
      /\ plain' => ~inferred /\ ~converted /\ ~voidVariable
      /\ "inferred" \notin Shapes => ~inferred
  <2>1. /\ plain' \in BOOLEAN /\ (plain' => plain) /\ (plain' => shapes = {})
        /\ shapes \subseteq Shapes
    <3> HIDE DEF shapes
    <3>1. QED
      BY <1>4, ShapesAre
  <2> HIDE DEF inferred, converted, voidVariable
  <2>2. shapes = {} => ~inferred /\ ~converted /\ ~voidVariable
    BY DEF If
  <2>3. inferred => "inferred" \in shapes
    BY DEF If
  <2>4. QED
    BY <2>1, <2>2, <2>3
<1>6. CASE Reject
  BY <1>5, <1>6, RejectInv
<1>7. CASE ~Reject
  <2>1. /\ locals' = [locals EXCEPT ![x] = [type |-> type, ir |-> ir]]
        /\ Stored(type, init.ir, ir)
        /\ values' = <<>>
        /\ Verifies(written # "void") /\ returns' = returns
    BY <1>4, <1>7
  <2>2. /\ type \in AllTypes /\ ir \in IrTypes
        /\ ir = "void" => type = "void"
        /\ ~inferred => (type = "bool" => ir = "i1")
        /\ ~inferred => ir = IrType(type)
    <3>1. CASE written = "none"
      <4>1. type = init.type /\ ir = "i32" /\ "i32" \in IrTypes
        BY <3>1 DEF SymbolType, DeclaredIr, IrTypes
      <4>2. ~inferred => IrType(type) = "i32"
        BY <3>1, <4>1
      <4>3. type = "bool" => IrType(type) = "i1"
        BY <1>2, <4>1, IrTypeIs
      <4>4. QED
        BY <1>2, <4>1, <4>2, <4>3
    <3>2. CASE written # "none"
      <4>1. type = written /\ ir = IrType(type) /\ type \in AllTypes
        BY <1>3, <3>2 DEF SymbolType, DeclaredIr
      <4>2. QED
        BY <4>1, IrTypeIs
    <3>3. QED
      BY <3>1, <3>2
  <2>3. rejected' = rejected /\ malformed' \in BOOLEAN /\ (written # "void" => ~malformed')
    BY <2>1 DEF Verifies
  <2>4. store' \in Store /\ (init.ir = ir => Bytes(store'.ir) = Bytes(store'.into))
    <3> HIDE DEF type, ir, init
    <3>1. QED
      BY <1>2, <2>1, <2>2, StoredIs
  <2>5. ASSUME SignaturesMatch, plain'
        PROVE  ~malformed' /\ Bytes(store'.ir) = Bytes(store'.into)
    <3>1. init.ir = IrType(init.type)
      BY <1>2, <1>5, <2>5
    <3>2. init.ir = ir
      BY <1>5, <2>5, <3>1 DEF DeclaredIr
    <3>3. QED
      BY <1>5, <2>3, <2>4, <2>5, <3>2
  <2> HIDE DEF type, ir, init, inferred, converted, voidVariable, shapes
  <2>6. locals \in [Names -> Local] /\ [type |-> type, ir |-> ir] \in Local
    BY <2>2 DEF IInv, TypeOK, Local
  <2>7. locals' \in [Names -> Local]
    BY <2>1, <2>6
  <2>8. ASSUME NEW y \in Names
        PROVE  \/ y = x /\ locals'[y].type = type /\ locals'[y].ir = ir
               \/ locals'[y] = locals[y]
    BY <2>1, <2>6
  <2>9. ASSUME NEW y \in Names
        PROVE  /\ locals'[y].ir = "void" => locals'[y].type = "void"
               /\ "inferred" \notin Shapes => (locals'[y].type = "bool" => locals'[y].ir = "i1")
               /\ SignaturesMatch /\ plain' => locals'[y].ir = IrType(locals'[y].type)
    <3>1. CASE locals'[y].type = type /\ locals'[y].ir = ir
      BY <1>5, <2>2, <3>1
    <3>2. CASE locals'[y] = locals[y]
      BY <1>5, <3>2 DEF IInv, LocalsHaveRoom, LocalBoolsAreBits, PlainAgrees
    <3>3. QED
      BY <2>8, <3>1, <3>2
  <2>10. EmptiesSound
    BY <1>5, <2>1, <2>3, <2>4, <2>5, <2>7, <2>9 DEF EmptiesSound
  <2>11. QED
    BY <2>10, EmptyInv
<1>8. QED
  BY <1>6, <1>7

LEMMA BareVarDeclInv ==
    ASSUME IInv, Accepted, NEW x \in Names, NEW written \in Written \cup {"none"},
           BareVarDecl(x, written)
    PROVE  IInv'
<1> DEFINE voidVariable == written = "void"
<1>1. /\ Unusual(If("voidVariable", voidVariable))
      /\ Depth = 0 /\ values \in Seq(Value)
      /\ \/ Reject
         \/ /\ written # "none"
            /\ locals' = [locals EXCEPT ![x] = [type |-> written, ir |-> IrType(written)]]
            /\ Verifies(written # "void")
            /\ store' = NoStore /\ returns' = returns /\ values' = values
  BY DEF BareVarDecl, Silent, IInv, TypeOK
<1>2. /\ plain' \in BOOLEAN /\ (plain' => plain)
      /\ plain' => ~voidVariable
  <2> HIDE DEF voidVariable
  <2> DEFINE shapes == If("voidVariable", voidVariable)
  <2>1. plain' \in BOOLEAN /\ (plain' => plain) /\ (plain' => shapes = {})
    <3>1. Unusual(shapes)
      BY <1>1
    <3> HIDE DEF shapes
    <3>2. QED
      BY <3>1, ShapesAre
  <2>2. shapes = {} => ~voidVariable
    BY DEF If
  <2>3. QED
    BY <2>1, <2>2
<1>3. CASE Reject
  BY <1>2, <1>3, RejectInv
<1>4. CASE ~Reject
  <2>1. /\ written \in AllTypes
        /\ locals' = [locals EXCEPT ![x] = [type |-> written, ir |-> IrType(written)]]
        /\ Verifies(written # "void")
        /\ store' = NoStore /\ returns' = returns /\ values' = values
    BY <1>1, <1>4, ParametersAssumption
  <2>2. values' = <<>>
    BY <1>1, <2>1 DEF Depth
  <2>3. /\ IrType(written) \in IrTypes /\ (IrType(written) = "void" => written = "void")
        /\ written = "bool" => IrType(written) = "i1"
    BY <2>1, IrTypeIs
  <2>4. rejected' = rejected /\ malformed' \in BOOLEAN /\ (plain' => ~malformed')
    BY <1>2, <2>1 DEF Verifies
  <2>5. locals \in [Names -> Local] /\ [type |-> written, ir |-> IrType(written)] \in Local
    BY <2>1, <2>3 DEF IInv, TypeOK, Local
  <2>6. locals' \in [Names -> Local]
    BY <2>1, <2>5
  <2>7. ASSUME NEW y \in Names
        PROVE  \/ locals'[y].type = written /\ locals'[y].ir = IrType(written)
               \/ locals'[y] = locals[y]
    BY <2>1, <2>5
  <2>8. ASSUME NEW y \in Names
        PROVE  /\ locals'[y].ir = "void" => locals'[y].type = "void"
               /\ "inferred" \notin Shapes => (locals'[y].type = "bool" => locals'[y].ir = "i1")
               /\ SignaturesMatch /\ plain' => locals'[y].ir = IrType(locals'[y].type)
    <3>1. CASE locals'[y].type = written /\ locals'[y].ir = IrType(written)
      BY <2>3, <3>1
    <3>2. CASE locals'[y] = locals[y]
      BY <1>2, <3>2 DEF IInv, LocalsHaveRoom, LocalBoolsAreBits, PlainAgrees
    <3>3. QED
      BY <2>7, <3>1, <3>2
  <2>9. EmptiesSound
    BY <1>2, <2>1, <2>2, <2>4, <2>6, <2>8, ConstantsAre DEF EmptiesSound
  <2>10. QED
    BY <2>9, EmptyInv
<1>5. QED
  BY <1>3, <1>4

LEMMA ExprStmtInv == ASSUME IInv, Accepted, ExprStmt PROVE IInv'
<1>1. /\ values' = <<>> /\ rejected' = rejected /\ malformed' = malformed /\ store' = NoStore
      /\ locals' = locals /\ returns' = returns /\ plain' = plain
  BY DEF ExprStmt, Fine, Silent
<1>2. malformed = FALSE /\ plain \in BOOLEAN
  BY DEF Accepted, IInv, TypeOK
<1>3. EmptiesSound
  BY <1>1, <1>2, LocalsStay, ConstantsAre DEF EmptiesSound
<1>4. QED
  BY <1>3, EmptyInv

LEMMA ConditionInv == ASSUME IInv, Accepted, Condition PROVE IInv'
<1> DEFINE operand == Operand(0)
           odd == ~IrInteger(IrType(operand.type))
<1>1. Depth \in Nat /\ 0 \in 0..(Depth - 1)
  BY DepthIs DEF IInv, Condition
<1>2. SignaturesMatch /\ plain => operand.ir = IrType(operand.type)
  BY <1>1, OperandIs
<1>3. /\ Unusual(If("oddCondition", odd))
      /\ values' = <<>>
      /\ Verifies(operand.ir = "void" \/ IrInteger(operand.ir))
      /\ store' = NoStore /\ locals' = locals /\ returns' = returns
  BY DEF Condition, Silent
<1>4. /\ plain' \in BOOLEAN /\ (plain' => plain)
      /\ plain' => ~odd
  <2> HIDE DEF odd
  <2> DEFINE shapes == If("oddCondition", odd)
  <2>1. plain' \in BOOLEAN /\ (plain' => plain) /\ (plain' => shapes = {})
    <3>1. Unusual(shapes)
      BY <1>3
    <3> HIDE DEF shapes
    <3>2. QED
      BY <3>1, ShapesAre
  <2>2. shapes = {} => ~odd
    BY DEF If
  <2>3. QED
    BY <2>1, <2>2
<1>5. /\ rejected' = rejected /\ malformed' \in BOOLEAN
      /\ SignaturesMatch /\ plain' => ~malformed'
  BY <1>2, <1>3, <1>4 DEF Verifies
<1>6. EmptiesSound
  BY <1>3, <1>4, <1>5, LocalsStay, ConstantsAre DEF EmptiesSound
<1>7. QED
  BY <1>6, EmptyInv

LEMMA ReturnStmtInv == ASSUME IInv, Accepted, ReturnStmt PROVE IInv'
<1> DEFINE value == Operand(0)
           converted == IrType(value.type) # IrType(returns)
<1>1. Depth \in Nat /\ 0 \in 0..(Depth - 1)
  BY DepthIs DEF IInv, ReturnStmt
<1>2. SignaturesMatch /\ plain => value.ir = IrType(value.type)
  BY <1>1, OperandIs
<1>3. /\ Unusual(If("converted", converted))
      /\ \/ Reject
         \/ /\ values' = <<>>
            /\ Verifies(value.ir = IrType(returns))
            /\ store' = NoStore /\ locals' = locals /\ returns' = returns
  BY DEF ReturnStmt, Silent
<1>4. /\ plain' \in BOOLEAN /\ (plain' => plain)
      /\ plain' => ~converted
  <2> HIDE DEF converted
  <2> DEFINE shapes == If("converted", converted)
  <2>1. plain' \in BOOLEAN /\ (plain' => plain) /\ (plain' => shapes = {})
    <3>1. Unusual(shapes)
      BY <1>3
    <3> HIDE DEF shapes
    <3>2. QED
      BY <3>1, ShapesAre
  <2>2. shapes = {} => ~converted
    BY DEF If
  <2>3. QED
    BY <2>1, <2>2
<1>5. CASE Reject
  BY <1>4, <1>5, RejectInv
<1>6. CASE ~Reject
  <2>1. /\ values' = <<>>
        /\ Verifies(value.ir = IrType(returns))
        /\ store' = NoStore /\ locals' = locals /\ returns' = returns
    BY <1>3, <1>6
  <2>2. /\ rejected' = rejected /\ malformed' \in BOOLEAN
        /\ SignaturesMatch /\ plain' => ~malformed'
    BY <1>2, <1>4, <2>1 DEF Verifies
  <2>3. EmptiesSound
    BY <1>4, <2>1, <2>2, LocalsStay, ConstantsAre DEF EmptiesSound
  <2>4. QED
    BY <2>3, EmptyInv
<1>7. QED
  BY <1>5, <1>6

LEMMA BareReturnStmtInv == ASSUME IInv, Accepted, BareReturnStmt PROVE IInv'
<1>1. Reject /\ plain' = plain /\ plain \in BOOLEAN
  BY DEF BareReturnStmt, IInv, TypeOK
<1>2. QED
  BY <1>1, RejectInv

LEMMA StutterInv == ASSUME IInv, UNCHANGED vars PROVE IInv'
<1>1. /\ locals' = locals /\ returns' = returns /\ values' = values /\ rejected' = rejected
      /\ malformed' = malformed /\ store' = store /\ plain' = plain
  BY DEF vars
<1>2. Depth' = Depth /\ (Accepted' <=> Accepted)
  BY <1>1 DEF Depth, Accepted
<1>3. QED
  BY <1>1, <1>2 DEF IInv, TypeOK, LocalsHaveRoom, NamesAreLocals, NumbersHaveValues, BoolsAreBits,
                    LocalBoolsAreBits, PlainAgrees, SignaturesMatch

LEMMA NextInv == ASSUME IInv, [Next]_vars PROVE IInv'
<1>1. CASE Visit
  <2>1. Accepted
    BY <1>1 DEF Visit
  <2>2. ASSUME NEW t \in {"i32", "f64", "str", "bool"}, Literal(t) PROVE IInv'
    BY <2>1, <2>2, LiteralInv
  <2>3. ASSUME NEW x \in Names, Identifier(x) PROVE IInv'
    BY <2>1, <2>3, IdentifierInv
  <2>4. ASSUME NEW op \in BinaryOps, BinaryExpr(op) PROVE IInv'
    BY <2>1, <2>4, BinaryExprInv
  <2>5. ASSUME NEW op \in UnaryOps, UnaryExpr(op) PROVE IInv'
    BY <2>1, <2>5, UnaryExprInv
  <2>6. CASE Assign
    BY <2>1, <2>6, AssignInv
  <2>7. ASSUME NEW f \in Called, NEW n \in 0..MaxValues, CallExpr(f, n) PROVE IInv'
    <3>1. n \in Nat
      BY ParametersAssumption
    <3>2. QED
      BY <2>1, <2>7, <3>1, CallExprInv
  <2>8. ASSUME NEW x \in Names, NEW t \in Written \cup {"none"}, VarDecl(x, t) \/ BareVarDecl(x, t)
        PROVE  IInv'
    BY <2>1, <2>8, VarDeclInv, BareVarDeclInv
  <2>9. CASE ExprStmt
    BY <2>1, <2>9, ExprStmtInv
  <2>10. CASE Condition
    BY <2>1, <2>10, ConditionInv
  <2>11. CASE ReturnStmt
    BY <2>1, <2>11, ReturnStmtInv
  <2>12. CASE BareReturnStmt
    BY <2>1, <2>12, BareReturnStmtInv
  <2>13. QED
    BY <1>1, <2>2, <2>3, <2>4, <2>5, <2>6, <2>7, <2>8, <2>9, <2>10, <2>11, <2>12 DEF Visit
<1>2. CASE Ended \/ UNCHANGED vars
  BY <1>2, StutterInv DEF Ended
<1>3. QED
  BY <1>1, <1>2 DEF Next

-----------------------------------------------------------------------------
(* Theorems *)

\* In every body, operands, variables and stores are as the invariant says
\* (SemanticAnalyzer.cpp:69-240, CodeGenerator.cpp:237-574).
THEOREM Invariant == Spec => []IInv
<1>1. Init => IInv
  BY InitInv
<1>2. IInv /\ [Next]_vars => IInv'
  BY NextInv
<1>3. QED
  BY <1>1, <1>2, PTL DEF Spec

\* In a plain body, of any variables and expressions of any depth, the analyzer's
\* type of every operand and variable is that of what the generator built
\* (TypeChecker.cpp:81-159, CodeGenerator.cpp:279-402).
THEOREM TypesAgreeHolds == SignaturesMatch => (Spec => []TypesAgree)
<1> SUFFICES ASSUME SignaturesMatch PROVE Spec => []TypesAgree
  OBVIOUS
<1>1. IInv => TypesAgree
  BY DEF IInv, PlainAgrees, TypesAgree, ValuesAgree
<1>2. QED
  BY <1>1, Invariant, PTL

\* A plain body that the analyzer accepts is well formed, and its stores fit
\* their variables (CodeGenerator.cpp:551-556, 779-782).
THEOREM AcceptedIsSoundHolds == SignaturesMatch => (Spec => []AcceptedIsSound)
<1> SUFFICES ASSUME SignaturesMatch PROVE Spec => []AcceptedIsSound
  OBVIOUS
<1>1. IInv => AcceptedIsSound
  BY DEF IInv, PlainAgrees, AcceptedIsSound, AcceptedVerifies, StoresFit
<1>2. QED
  BY <1>1, Invariant, PTL

\* However types are mixed, what is a number or text to the analyzer has a value
\* (CodeGenerator.cpp:553, 570).
THEOREM NumbersHaveValuesHolds == Spec => []NumbersHaveValues
<1>1. IInv => NumbersHaveValues
  BY DEF IInv
<1>2. QED
  BY <1>1, Invariant, PTL

\* However types are mixed, a bool is one bit as long as no declaration leaves
\* its type to be inferred (CodeGenerator.cpp:546-549, 583, 633).
THEOREM ValuesAreSoundHolds == "inferred" \notin Shapes => (Spec => []ValuesAreSound)
<1> SUFFICES ASSUME "inferred" \notin Shapes PROVE Spec => []ValuesAreSound
  OBVIOUS
<1>1. IInv => ValuesAreSound
  BY DEF IInv, ValuesAreSound
<1>2. QED
  BY <1>1, Invariant, PTL


-----------------------------------------------------------------------------
(* The values: Values, with variables of its own *)

(* Powers of two *)

\* The order of the numbers as a set, as WellFoundedInduction has orders.
Less == {p \in Nat \X Nat : p[1] < p[2]}

\* What holds of 0, and of the next number with a number, holds of all.
LEMMA Numbers ==
    ASSUME NEW S \in SUBSET Nat, 0 \in S, \A n \in S : n + 1 \in S
    PROVE  S = Nat
<1>1. IsWellFoundedOn(Less, Nat)
  BY NatLessThanWellFounded DEF OpToRel, Less
<1>2. ASSUME Nat \ S # {} PROVE FALSE
  <2>1. PICK n \in Nat \ S : \A m \in Nat \ S : ~ (<<m, n>> \in Less)
    BY <1>1, <1>2, WFMin
  <2>2. n # 0 /\ n - 1 \in Nat /\ n - 1 < n /\ (n - 1) + 1 = n
    BY <2>1
  <2>3. n - 1 \in S
    BY <2>1, <2>2 DEF Less
  <2> QED BY <2>1, <2>2, <2>3
<1> QED BY <1>2

\* f has the powers up to that of n.
PowersTo(f, n) ==
    f \in [0..n -> Nat] /\ f[0] = 1 /\ \A i \in 0..(n - 1) : f[i + 1] = 2 * f[i]

LEMMA PowersExist == \A n \in Nat : \E f : PowersTo(f, n)
<1> DEFINE S == {n \in Nat : \E f : PowersTo(f, n)}
<1>1. 0 \in S
  <2> DEFINE f == [i \in 0..0 |-> 1]
  <2>1. PowersTo(f, 0)
    BY DEF PowersTo
  <2> QED BY <2>1
<1>2. ASSUME NEW n \in S PROVE n + 1 \in S
  <2>1. n \in Nat
    OBVIOUS
  <2>2. PICK f : PowersTo(f, n)
    OBVIOUS
  <2> DEFINE g == [i \in 0..(n + 1) |-> IF i <= n THEN f[i] ELSE 2 * f[n]]
  <2>3. g \in [0..(n + 1) -> Nat]
    BY <2>1, <2>2 DEF PowersTo
  <2>4. g[0] = 1
    BY <2>1, <2>2 DEF PowersTo
  <2>5. ASSUME NEW i \in 0..n PROVE g[i + 1] = 2 * g[i]
    <3>1. g[i] = f[i] /\ i + 1 \in 0..(n + 1)
      BY <2>1
    <3>2. CASE i < n
      BY <2>1, <2>2, <3>1, <3>2 DEF PowersTo
    <3>3. CASE i = n
      BY <2>1, <3>1, <3>3
    <3> QED BY <2>1, <3>2, <3>3
  <2>6. PowersTo(g, n + 1)
    <3> HIDE DEF g
    <3>1. (n + 1) - 1 = n
      BY <2>1
    <3> QED BY <2>3, <2>4, <2>5, <3>1 DEF PowersTo
  <2> HIDE DEF g
  <2> QED BY <2>1, <2>6
<1>3. S = Nat
  <2> HIDE DEF S
  <2>1. S \in SUBSET Nat
    BY DEF S
  <2> QED BY <1>1, <1>2, <2>1, Numbers
<1> QED BY <1>3

LEMMA PowersAgree ==
    ASSUME NEW n \in Nat, NEW m \in Nat, NEW f, NEW g, PowersTo(f, n), PowersTo(g, m)
    PROVE  \A i \in Nat : i <= n /\ i <= m => f[i] = g[i]
<1> DEFINE S == {i \in Nat : i <= n /\ i <= m => f[i] = g[i]}
<1>1. 0 \in S
  BY DEF PowersTo
<1>2. ASSUME NEW i \in S PROVE i + 1 \in S
  BY DEF PowersTo
<1>3. S = Nat
  <2> HIDE DEF S
  <2>1. S \in SUBSET Nat
    BY DEF S
  <2> QED BY <1>1, <1>2, <2>1, Numbers
<1> QED BY <1>3

\* The recursion of Power defines a function, which has its values.
LEMMA PowerIs ==
    /\ V!Power \in [Nat -> Nat]
    /\ V!Power[0] = 1
    /\ \A n \in Nat : V!Power[n + 1] = 2 * V!Power[n]
<1> DEFINE of(n) == CHOOSE f : PowersTo(f, n)
           F == [n \in Nat |-> of(n)[n]]
           Is(f) == f = [n \in Nat |-> IF n = 0 THEN 1 ELSE 2 * f[n - 1]]
<1>1. ASSUME NEW n \in Nat PROVE PowersTo(of(n), n)
  BY PowersExist
<1> HIDE DEF of
<1>2. ASSUME NEW n \in Nat PROVE F[n] = IF n = 0 THEN 1 ELSE 2 * F[n - 1]
  <2>1. CASE n = 0
    BY <1>1, <2>1 DEF PowersTo
  <2>2. CASE n # 0
    <3>1. n - 1 \in Nat /\ n - 1 \in 0..(n - 1) /\ (n - 1) + 1 = n /\ n - 1 <= n
      BY <2>2
    <3>2. of(n)[n] = 2 * of(n)[n - 1]
      BY <1>1, <3>1 DEF PowersTo
    <3>3. of(n)[n - 1] = of(n - 1)[n - 1]
      BY <1>1, <3>1, PowersAgree
    <3> QED BY <2>2, <3>1, <3>2, <3>3
  <2> QED BY <2>1, <2>2
<1>3. Is(F)
  <2>1. F = [n \in Nat |-> F[n]]
    OBVIOUS
  <2> HIDE DEF F
  <2> QED BY <1>2, <2>1
<1>4. Is(V!Power)
  <2> HIDE DEF F
  <2>1. V!Power = CHOOSE f : Is(f)
    BY DEF V!Power
  <2> HIDE DEF Is
  <2> QED BY <1>3, <2>1
<1>5. V!Power[0] = 1 /\ \A n \in Nat : V!Power[n + 1] = 2 * V!Power[n]
  <2>1. V!Power[0] = 1
    BY <1>4
  <2>2. ASSUME NEW n \in Nat PROVE V!Power[n + 1] = 2 * V!Power[n]
    <3>1. n + 1 \in Nat /\ n + 1 # 0 /\ (n + 1) - 1 = n
      OBVIOUS
    <3>2. V!Power[n + 1] = IF n + 1 = 0 THEN 1 ELSE 2 * V!Power[(n + 1) - 1]
      BY <1>4, <3>1
    <3> QED BY <3>1, <3>2
  <2> QED BY <2>1, <2>2
<1>6. \A n \in Nat : V!Power[n] \in Nat
  <2> DEFINE S == {n \in Nat : V!Power[n] \in Nat}
  <2>1. 0 \in S
    BY <1>5
  <2>2. ASSUME NEW n \in S PROVE n + 1 \in S
    BY <1>5
  <2>3. S = Nat
    <3> HIDE DEF S
    <3>1. S \in SUBSET Nat
      BY DEF S
    <3> QED BY <2>1, <2>2, <3>1, Numbers
  <2> QED BY <2>3
<1>7. V!Power \in [Nat -> Nat]
  <2>1. V!Power = [n \in Nat |-> V!Power[n]]
    <3>1. V!Power = [n \in Nat |-> IF n = 0 THEN 1 ELSE 2 * V!Power[n - 1]]
      BY <1>4
    <3> DEFINE G == [n \in Nat |-> IF n = 0 THEN 1 ELSE 2 * V!Power[n - 1]]
    <3>2. G = [n \in Nat |-> G[n]]
      OBVIOUS
    <3> HIDE DEF G
    <3>3. V!Power = G
      BY <3>1 DEF G
    <3> QED BY <3>2, <3>3
  <2> QED BY <1>6, <2>1
<1> QED BY <1>5, <1>7

\* Powers exceed their exponents, and each is a multiple of a lower one.
LEMMA PowerGrows == \A n \in Nat : V!Power[n] > n
<1> DEFINE S == {n \in Nat : V!Power[n] > n}
<1>1. 0 \in S
  BY PowerIs
<1>2. ASSUME NEW n \in S PROVE n + 1 \in S
  BY PowerIs
<1>3. S = Nat
  <2> HIDE DEF S
  <2>1. S \in SUBSET Nat
    BY DEF S
  <2> QED BY <1>1, <1>2, <2>1, Numbers
<1> QED BY <1>3

LEMMA PowerSplits ==
    ASSUME NEW m \in Nat
    PROVE  \A n \in Nat : \E k \in Nat \ {0} : V!Power[m + n] = V!Power[m] * k
<1> DEFINE S == {n \in Nat : \E k \in Nat \ {0} : V!Power[m + n] = V!Power[m] * k}
<1>1. 0 \in S
  <2>1. V!Power[m + 0] = V!Power[m] * 1 /\ 1 \in Nat \ {0}
    BY PowerIs
  <2> QED BY <2>1
<1>2. ASSUME NEW n \in S PROVE n + 1 \in S
  <2>1. PICK k \in Nat \ {0} : V!Power[m + n] = V!Power[m] * k
    OBVIOUS
  <2>2. n \in Nat /\ m + n \in Nat /\ (m + n) + 1 = m + (n + 1)
    OBVIOUS
  <2>3. V!Power[m + (n + 1)] = 2 * (V!Power[m] * k)
    BY <2>1, <2>2, PowerIs
  <2>4. V!Power[m] \in Nat /\ 2 * k \in Nat \ {0}
    BY PowerIs
  <2>5. 2 * (V!Power[m] * k) = V!Power[m] * (2 * k)
    BY <2>1, <2>4
  <2> QED BY <2>2, <2>3, <2>4, <2>5
<1>3. S = Nat
  <2> HIDE DEF S
  <2>1. S \in SUBSET Nat
    BY DEF S
  <2> QED BY <1>1, <1>2, <2>1, Numbers
<1> QED BY <1>3
-----------------------------------------------------------------------------
(* Congruence *)

Congruent(a, b, p) == \E k \in Int : a = b + k * p

LEMMA CongruentSelf == ASSUME NEW a \in Int, NEW p \in Int PROVE Congruent(a, a, p)
<1>1. 0 \in Int /\ a = a + 0 * p
  OBVIOUS
<1> QED BY <1>1 DEF Congruent

LEMMA CongruentBack ==
    ASSUME NEW a \in Int, NEW b \in Int, NEW p \in Int, Congruent(a, b, p)
    PROVE  Congruent(b, a, p)
<1>1. PICK k \in Int : a = b + k * p
  BY DEF Congruent
<1>2. -k \in Int /\ b = a + (-k) * p
  BY <1>1
<1> QED BY <1>2 DEF Congruent

LEMMA CongruentOn ==
    ASSUME NEW a \in Int, NEW b \in Int, NEW c \in Int, NEW p \in Int,
           Congruent(a, b, p), Congruent(b, c, p)
    PROVE  Congruent(a, c, p)
<1>1. PICK k \in Int : a = b + k * p
  BY DEF Congruent
<1>2. PICK l \in Int : b = c + l * p
  BY DEF Congruent
<1>3. k + l \in Int /\ a = c + (k + l) * p
  BY <1>1, <1>2
<1> QED BY <1>3 DEF Congruent

LEMMA CongruentSum ==
    ASSUME NEW a \in Int, NEW b \in Int, NEW c \in Int, NEW d \in Int, NEW p \in Int,
           Congruent(a, b, p), Congruent(c, d, p)
    PROVE  Congruent(a + c, b + d, p) /\ Congruent(a - c, b - d, p)
<1>1. PICK k \in Int : a = b + k * p
  BY DEF Congruent
<1>2. PICK l \in Int : c = d + l * p
  BY DEF Congruent
<1>3. k + l \in Int /\ a + c = (b + d) + (k + l) * p
  BY <1>1, <1>2
<1>4. k - l \in Int /\ a - c = (b - d) + (k - l) * p
  BY <1>1, <1>2
<1> QED BY <1>3, <1>4 DEF Congruent

LEMMA CongruentProduct ==
    ASSUME NEW a \in Int, NEW b \in Int, NEW c \in Int, NEW d \in Int, NEW p \in Int,
           Congruent(a, b, p), Congruent(c, d, p)
    PROVE  Congruent(a * c, b * d, p)
<1>1. PICK k \in Int : a = b + k * p
  BY DEF Congruent
<1>2. PICK l \in Int : c = d + l * p
  BY DEF Congruent
<1>3. a * c = (b + k * p) * (d + l * p)
  BY <1>1, <1>2
<1>4. (b + k * p) * (d + l * p) = b * d + (b * l + k * d + k * (l * p)) * p
  OBVIOUS
<1>5. b * l + k * d + k * (l * p) \in Int
  OBVIOUS
<1> QED BY <1>3, <1>4, <1>5 DEF Congruent

\* A multiple of the modulus makes no difference, nor does a coarser modulus.
LEMMA CongruentTurns ==
    ASSUME NEW a \in Int, NEW k \in Int, NEW p \in Int
    PROVE  Congruent(a + k * p, a, p)
BY DEF Congruent

LEMMA CongruentTurn ==
    ASSUME NEW a \in Int, NEW p \in Int, NEW c \in Int, c = a - p
    PROVE  Congruent(c, a, p)
<1>1. -1 \in Int /\ c = a + (-1) * p
  OBVIOUS
<1> QED BY <1>1 DEF Congruent

LEMMA CongruentCoarser ==
    ASSUME NEW a \in Int, NEW b \in Int, NEW p \in Int, NEW q \in Int,
           \E j \in Int : q = p * j, Congruent(a, b, q)
    PROVE  Congruent(a, b, p)
<1>1. PICK j \in Int : q = p * j
  OBVIOUS
<1>2. PICK k \in Int : a = b + k * (p * j)
  BY <1>1 DEF Congruent
<1>3. k * j \in Int /\ a = b + (k * j) * p
  BY <1>2
<1> QED BY <1>3 DEF Congruent

\* Congruent numbers that are less than the modulus apart are equal.
LEMMA CongruentEqual ==
    ASSUME NEW a \in Int, NEW b \in Int, NEW p \in Nat \ {0}, Congruent(a, b, p),
           a - b < p, b - a < p
    PROVE  a = b
<1>1. PICK k \in Int : a = b + k * p
  BY DEF Congruent
<1>2. k * p < p /\ -p < k * p
  BY <1>1
<1>3. ~ (k >= 1)
  BY <1>2
<1>4. ~ (k <= -1)
  BY <1>2
<1> QED BY <1>1, <1>3, <1>4

LEMMA Divided ==
    ASSUME NEW n \in Int, NEW p \in Nat \ {0}
    PROVE  n \div p \in Int /\ n % p \in 0..(p - 1) /\ n = (n \div p) * p + (n % p)
<1>1. n \div p \in Int /\ n % p \in Int
  OBVIOUS
<1>2. n = p * (n \div p) + (n % p) /\ 0 <= n % p /\ n % p < p
  BY Z3
<1> QED BY <1>1, <1>2

LEMMA QuotientIs ==
    ASSUME NEW n \in Int, NEW p \in Nat \ {0}, NEW q \in Int, NEW r \in 0..(p - 1), n = q * p + r
    PROVE  n \div p = q /\ n % p = r
<1> DEFINE x == n \div p y == n % p
<1>1. x \in Int /\ y \in 0..(p - 1) /\ n = x * p + y
  BY Divided
<1> HIDE DEF x, y
<1>2. Congruent(r, y, p)
  <2>1. x - q \in Int /\ r = y + (x - q) * p
    BY <1>1
  <2> QED BY <2>1 DEF Congruent
<1>3. r = y
  BY <1>1, <1>2, CongruentEqual
<1>4. (x - q) * p = 0
  BY <1>1, <1>3
<1>5. x = q
  BY <1>1, <1>4
<1> QED BY <1>3, <1>5 DEF x, y

LEMMA WrapIs ==
    ASSUME NEW n \in Int, NEW w \in Nat
    PROVE  /\ V!Wrap(n, w) \in 0..(V!Power[w] - 1)
           /\ Congruent(V!Wrap(n, w), n, V!Power[w])
           /\ \A b \in 0..(V!Power[w] - 1) : Congruent(b, n, V!Power[w]) => b = V!Wrap(n, w)
<1> DEFINE p == V!Power[w]
<1>1. p \in Nat \ {0}
  BY PowerIs, PowerGrows
<1>2. V!Wrap(n, w) = n % p
  BY DEF V!Wrap
<1> HIDE DEF p
<1>3. V!Wrap(n, w) \in 0..(p - 1) /\ n \div p \in Int /\ n = (n \div p) * p + V!Wrap(n, w)
  BY <1>1, <1>2, Divided
<1>4. Congruent(n, V!Wrap(n, w), p)
  <2> DEFINE q == n \div p
  <2>1. q \in Int /\ n = V!Wrap(n, w) + q * p
    BY <1>1, <1>3
  <2> HIDE DEF q
  <2> QED BY <2>1 DEF Congruent
<1>5. Congruent(V!Wrap(n, w), n, p)
  BY <1>1, <1>3, <1>4, CongruentBack
<1>6. ASSUME NEW b \in 0..(p - 1), Congruent(b, n, p) PROVE b = V!Wrap(n, w)
  <2>1. Congruent(b, V!Wrap(n, w), p)
    BY <1>1, <1>3, <1>4, <1>6, CongruentOn
  <2> QED BY <1>1, <1>3, <2>1, CongruentEqual
<1> QED BY <1>3, <1>5, <1>6 DEF p

LEMMA SignedIs ==
    ASSUME NEW w \in Nat \ {0}, NEW b \in 0..(V!Power[w] - 1)
    PROVE  /\ V!Signed(b, w) \in (-V!Power[w - 1])..(V!Power[w - 1] - 1)
           /\ Congruent(V!Signed(b, w), b, V!Power[w])
           /\ V!Power[w] = 2 * V!Power[w - 1] /\ V!Power[w - 1] \in Nat \ {0}
<1>1. w - 1 \in Nat /\ (w - 1) + 1 = w
  OBVIOUS
<1>2. V!Power[w] = 2 * V!Power[w - 1] /\ V!Power[w - 1] \in Nat \ {0}
  <2>1. V!Power[(w - 1) + 1] = 2 * V!Power[w - 1]
    BY <1>1, PowerIs
  <2> QED BY <1>1, <2>1, PowerIs, PowerGrows
<1>3. V!Signed(b, w) \in (-V!Power[w - 1])..(V!Power[w - 1] - 1)
  BY <1>2 DEF V!Signed
<1>4. Congruent(V!Signed(b, w), b, V!Power[w])
  <2> DEFINE p == V!Power[w]
  <2>0. p \in Int /\ b \in Int
    BY <1>2
  <2> HIDE DEF p
  <2>1. Congruent(b, b, p)
    BY <2>0, CongruentSelf
  <2>3. Congruent(b - p, b, p)
    BY <2>0, CongruentTurn
  <2> QED BY <2>1, <2>3 DEF V!Signed, p
<1> QED BY <1>2, <1>3, <1>4
-----------------------------------------------------------------------------
(* Bits *)

\* What the bit at i contributes to the result of an operation on each bit.
Contributes(ones, a, b, i) == IF V!Bit(a, i) + V!Bit(b, i) \in ones THEN V!Power[i] ELSE 0

\* f has the sums over the lower bits, up to w of them.
LowerTo(f, ones, a, b, w) ==
    f = [n \in 0..w |-> IF n = 0 THEN 0 ELSE f[n - 1] + Contributes(ones, a, b, n - 1)]

LEMMA LowerStep ==
    ASSUME NEW ones, NEW a, NEW b, NEW w \in Nat, NEW f, LowerTo(f, ones, a, b, w)
    PROVE  /\ f[0] = 0
           /\ \A n \in Nat : n < w => f[n + 1] = f[n] + Contributes(ones, a, b, n)
<1>1. f[0] = 0
  BY DEF LowerTo
<1>2. ASSUME NEW n \in Nat, n < w PROVE f[n + 1] = f[n] + Contributes(ones, a, b, n)
  <2>1. n + 1 \in 0..w /\ n + 1 # 0 /\ (n + 1) - 1 = n
    BY <1>2
  <2>2. f[n + 1] = IF n + 1 = 0 THEN 0
                   ELSE f[(n + 1) - 1] + Contributes(ones, a, b, (n + 1) - 1)
    BY <2>1 DEF LowerTo
  <2> QED BY <2>1, <2>2
<1> QED BY <1>1, <1>2

LEMMA LowerExists == ASSUME NEW ones, NEW a, NEW b PROVE \A w \in Nat : \E f : LowerTo(f, ones, a, b, w)
<1> DEFINE S == {w \in Nat : \E f : LowerTo(f, ones, a, b, w)}
<1>1. 0 \in S
  <2> DEFINE f == [n \in 0..0 |-> 0]
  <2>1. f = [n \in 0..0 |-> IF n = 0 THEN 0 ELSE f[n - 1] + Contributes(ones, a, b, n - 1)]
    OBVIOUS
  <2> QED BY <2>1 DEF LowerTo
<1>2. ASSUME NEW w \in S PROVE w + 1 \in S
  <2>1. w \in Nat
    OBVIOUS
  <2>2. PICK f : LowerTo(f, ones, a, b, w)
    OBVIOUS
  <2>f. f[0] = 0 /\ \A n \in Nat : n < w => f[n + 1] = f[n] + Contributes(ones, a, b, n)
    <3> HIDE DEF S
    <3> QED BY <2>1, <2>2, LowerStep
  <2> DEFINE c == f[w] + Contributes(ones, a, b, w)
             g == [n \in 0..(w + 1) |-> IF n <= w THEN f[n] ELSE c]
  <2>3. ASSUME NEW n \in 0..(w + 1)
        PROVE  g[n] = IF n = 0 THEN 0 ELSE g[n - 1] + Contributes(ones, a, b, n - 1)
    <3>1. CASE n = 0
      BY <2>1, <2>f, <3>1
    <3>2. CASE n # 0 /\ n <= w
      <4>1. n - 1 \in Nat /\ n - 1 < w /\ (n - 1) + 1 = n /\ n - 1 \in 0..(w + 1) /\ n - 1 <= w
        BY <2>1, <3>2
      <4>2. f[(n - 1) + 1] = f[n - 1] + Contributes(ones, a, b, n - 1)
        BY <2>f, <4>1
      <4> QED BY <3>2, <4>1, <4>2
    <3>3. CASE n = w + 1
      <4>1. n - 1 = w /\ ~ (n <= w) /\ n # 0 /\ w \in 0..(w + 1) /\ w <= w
        BY <2>1, <3>3
      <4> QED BY <4>1
    <3> QED BY <2>1, <3>1, <3>2, <3>3
  <2>4. g = [n \in 0..(w + 1) |-> g[n]]
    OBVIOUS
  <2> HIDE DEF g
  <2>5. LowerTo(g, ones, a, b, w + 1)
    BY <2>3, <2>4 DEF LowerTo
  <2> QED BY <2>1, <2>5
<1>3. S = Nat
  <2> HIDE DEF S
  <2>1. S \in SUBSET Nat
    BY DEF S
  <2> QED BY <1>1, <1>2, <2>1, Numbers
<1> QED BY <1>3

LEMMA LowerAgree ==
    ASSUME NEW ones, NEW a, NEW b, NEW w \in Nat, NEW v \in Nat, NEW f, NEW g,
           LowerTo(f, ones, a, b, w), LowerTo(g, ones, a, b, v)
    PROVE  \A n \in Nat : n <= w /\ n <= v => f[n] = g[n]
<1>f. f[0] = 0 /\ \A n \in Nat : n < w => f[n + 1] = f[n] + Contributes(ones, a, b, n)
  BY LowerStep
<1>g. g[0] = 0 /\ \A n \in Nat : n < v => g[n + 1] = g[n] + Contributes(ones, a, b, n)
  BY LowerStep
<1> DEFINE S == {n \in Nat : n <= w /\ n <= v => f[n] = g[n]}
<1>1. 0 \in S
  BY <1>f, <1>g
<1>2. ASSUME NEW n \in S PROVE n + 1 \in S
  <2>1. n \in Nat
    OBVIOUS
  <2>2. SUFFICES ASSUME n + 1 <= w, n + 1 <= v PROVE f[n + 1] = g[n + 1]
    BY <2>1
  <2>3. n < w /\ n < v /\ f[n] = g[n]
    BY <2>1, <2>2
  <2> HIDE DEF S
  <2>4. f[n + 1] = f[n] + Contributes(ones, a, b, n) /\ g[n + 1] = g[n] + Contributes(ones, a, b, n)
    BY <2>1, <2>3, <1>f, <1>g
  <2> QED BY <2>3, <2>4
<1>3. S = Nat
  <2> HIDE DEF S
  <2>1. S \in SUBSET Nat
    BY DEF S
  <2> QED BY <1>1, <1>2, <2>1, Numbers
<1> QED BY <1>3

\* The recursion of OnBits defines a function.
LEMMA OnBitsIs ==
    ASSUME NEW ones, NEW a, NEW b, NEW w \in Nat
    PROVE  \E f : LowerTo(f, ones, a, b, w) /\ V!OnBits(ones, a, b, w) = f[w]
<1> DEFINE f == CHOOSE g : LowerTo(g, ones, a, b, w)
<1>1. LowerTo(f, ones, a, b, w)
  BY LowerExists
<1>2. V!OnBits(ones, a, b, w) = f[w]
  BY DEF V!OnBits, LowerTo, Contributes
<1> QED BY <1>1, <1>2

LEMMA OnBitsStep ==
    ASSUME NEW ones, NEW a, NEW b
    PROVE  /\ V!OnBits(ones, a, b, 0) = 0
           /\ \A n \in Nat : V!OnBits(ones, a, b, n + 1) =
                                 V!OnBits(ones, a, b, n) + Contributes(ones, a, b, n)
<1>1. V!OnBits(ones, a, b, 0) = 0
  <2>1. PICK f : LowerTo(f, ones, a, b, 0) /\ V!OnBits(ones, a, b, 0) = f[0]
    BY OnBitsIs
  <2> QED BY <2>1, LowerStep
<1>2. ASSUME NEW n \in Nat
      PROVE  V!OnBits(ones, a, b, n + 1) = V!OnBits(ones, a, b, n) + Contributes(ones, a, b, n)
  <2>1. n + 1 \in Nat /\ n < n + 1 /\ n <= n /\ n <= n + 1
    OBVIOUS
  <2>2. PICK f : LowerTo(f, ones, a, b, n) /\ V!OnBits(ones, a, b, n) = f[n]
    BY OnBitsIs
  <2>3. PICK g : LowerTo(g, ones, a, b, n + 1) /\ V!OnBits(ones, a, b, n + 1) = g[n + 1]
    BY <2>1, OnBitsIs
  <2>4. g[n + 1] = g[n] + Contributes(ones, a, b, n)
    BY <2>1, <2>3, LowerStep
  <2>5. f[n] = g[n]
    BY <2>1, <2>2, <2>3, LowerAgree
  <2> QED BY <2>2, <2>3, <2>4, <2>5
<1> QED BY <1>1, <1>2

LEMMA BitIs ==
    ASSUME NEW n \in Int, NEW i \in Nat
    PROVE  V!Bit(n, i) \in 0..1 /\ n \div V!Power[i] \in Int
<1>1. V!Power[i] \in Nat \ {0}
  BY PowerIs, PowerGrows
<1>2. n \div V!Power[i] \in Int
  BY <1>1
<1> QED BY <1>2 DEF V!Bit

LEMMA ContributesIs ==
    ASSUME NEW ones, NEW a, NEW b, NEW i \in Nat
    PROVE  Contributes(ones, a, b, i) \in {0, V!Power[i]}
BY DEF Contributes

\* The result on n bits is a word of n bits.
LEMMA OnBitsRange ==
    ASSUME NEW ones, NEW a, NEW b
    PROVE  \A n \in Nat : V!OnBits(ones, a, b, n) \in 0..(V!Power[n] - 1)
<1> DEFINE S == {n \in Nat : V!OnBits(ones, a, b, n) \in 0..(V!Power[n] - 1)}
<1>1. 0 \in S
  BY OnBitsStep, PowerIs
<1>2. ASSUME NEW n \in S PROVE n + 1 \in S
  <2>1. n \in Nat /\ V!OnBits(ones, a, b, n) \in 0..(V!Power[n] - 1) /\ V!Power[n] \in Nat
    BY PowerIs
  <2> HIDE DEF S
  <2>2. V!OnBits(ones, a, b, n + 1) \in 0..(2 * V!Power[n] - 1)
    <3>1. Contributes(ones, a, b, n) \in {0, V!Power[n]}
      BY <2>1, ContributesIs
    <3>2. V!OnBits(ones, a, b, n + 1) = V!OnBits(ones, a, b, n) + Contributes(ones, a, b, n)
      BY <2>1, OnBitsStep
    <3> QED BY <2>1, <3>1, <3>2
  <2>3. V!Power[n + 1] = 2 * V!Power[n] /\ n + 1 \in Nat
    BY <2>1, PowerIs
  <2> QED BY <2>2, <2>3 DEF S
<1>3. S = Nat
  <2> HIDE DEF S
  <2>1. S \in SUBSET Nat
    BY DEF S
  <2> QED BY <1>1, <1>2, <2>1, Numbers
<1> QED BY <1>3

\* The bits beyond the w lowest change a result by multiples of the power of w.
LEMMA OnBitsHigher ==
    ASSUME NEW ones, NEW a, NEW b, NEW w \in Nat
    PROVE  \A n \in Nat : Congruent(V!OnBits(ones, a, b, w + n), V!OnBits(ones, a, b, w), V!Power[w])
<1> DEFINE p == V!Power[w]
           at(n) == V!OnBits(ones, a, b, n)
           S == {n \in Nat : Congruent(at(w + n), at(w), p)}
<1>0. p \in Nat /\ \A n \in Nat : at(n) \in Nat
  BY OnBitsRange, PowerIs
<1>1. 0 \in S
  <2>1. w + 0 = w
    OBVIOUS
  <2> QED BY <1>0, <2>1, CongruentSelf
<1>2. ASSUME NEW n \in S PROVE n + 1 \in S
  <2>1. n \in Nat /\ w + n \in Nat /\ (w + n) + 1 = w + (n + 1) /\ Congruent(at(w + n), at(w), p)
    OBVIOUS
  <2>2. at(w + (n + 1)) = at(w + n) + Contributes(ones, a, b, w + n)
    BY <2>1, OnBitsStep
  <2>3. PICK k \in Nat \ {0} : V!Power[w + n] = p * k
    BY <2>1, PowerSplits
  <2>4. Contributes(ones, a, b, w + n) \in {0, p * k}
    BY <2>1, <2>3, ContributesIs
  <2> HIDE DEF S, at, p
  <2>5. PICK c \in {0, k} : Contributes(ones, a, b, w + n) = c * p
    BY <1>0, <2>3, <2>4
  <2>6. at(w + n) \in Int /\ c \in Int /\ p \in Int /\ at(w) \in Int /\ at(w + (n + 1)) \in Int
    BY <1>0, <2>1, <2>3, <2>5
  <2>7. at(w + (n + 1)) = at(w + n) + c * p
    BY <2>2, <2>5
  <2>8. Congruent(at(w + n) + c * p, at(w + n), p)
    BY <2>6, CongruentTurns
  <2>9. Congruent(at(w + (n + 1)), at(w), p)
    BY <2>1, <2>6, <2>7, <2>8, CongruentOn
  <2> QED BY <2>1, <2>9 DEF S
<1>3. S = Nat
  <2> HIDE DEF S
  <2>1. S \in SUBSET Nat
    BY DEF S
  <2> QED BY <1>1, <1>2, <2>1, Numbers
<1> QED BY <1>3

\* The w lowest bits of a number are those of any that is congruent to it.
LEMMA LowBits ==
    ASSUME NEW a \in Int, NEW b \in Int, NEW w \in Nat, Congruent(a, b, V!Power[w])
    PROVE  \A i \in Nat : i < w => V!Bit(a, i) = V!Bit(b, i)
<1> SUFFICES ASSUME NEW i \in Nat, i < w PROVE V!Bit(a, i) = V!Bit(b, i)
  OBVIOUS
<1> DEFINE p == V!Power[i]
<1>1. p \in Nat \ {0}
  BY PowerIs, PowerGrows
<1>2. PICK j \in Nat \ {0} : V!Power[w] = (2 * p) * j
  <2>1. w - (i + 1) \in Nat /\ (i + 1) + (w - (i + 1)) = w /\ i + 1 \in Nat
    OBVIOUS
  <2>2. \E j \in Nat \ {0} : V!Power[(i + 1) + (w - (i + 1))] = V!Power[i + 1] * j
    BY <2>1, PowerSplits
  <2> QED BY <2>1, <2>2, PowerIs
<1>3. PICK k \in Int : a = b + k * ((2 * p) * j)
  BY <1>2 DEF Congruent
<1> HIDE DEF p
<1> DEFINE q == b \div p r == b % p
<1>4. q \in Int /\ r \in 0..(p - 1) /\ b = q * p + r
  BY <1>1, Divided
<1> HIDE DEF q, r
<1>5. (q + 2 * (k * j)) \in Int /\ a = (q + 2 * (k * j)) * p + r
  BY <1>1, <1>3, <1>4
<1>6. a \div p = q + 2 * (k * j)
  BY <1>1, <1>4, <1>5, QuotientIs
<1>7. (q + 2 * (k * j)) % 2 = q % 2
  <2> DEFINE m == k * j
  <2>1. m \in Int
    OBVIOUS
  <2> HIDE DEF m
  <2>2. (q + 2 * m) % 2 = q % 2
    BY <1>4, <2>1
  <2> QED BY <2>2 DEF m
<1> QED BY <1>6, <1>7 DEF V!Bit, p, q

LEMMA OnBitsCongruent ==
    ASSUME NEW ones, NEW a \in Int, NEW b \in Int, NEW c \in Int, NEW d \in Int, NEW w \in Nat,
           Congruent(a, c, V!Power[w]), Congruent(b, d, V!Power[w])
    PROVE  V!OnBits(ones, a, b, w) = V!OnBits(ones, c, d, w)
<1> DEFINE S == {n \in Nat : n <= w => V!OnBits(ones, a, b, n) = V!OnBits(ones, c, d, n)}
<1>1. 0 \in S
  BY OnBitsStep
<1>2. ASSUME NEW n \in S PROVE n + 1 \in S
  <2>1. n \in Nat
    OBVIOUS
  <2>2. SUFFICES ASSUME n + 1 <= w PROVE V!OnBits(ones, a, b, n + 1) = V!OnBits(ones, c, d, n + 1)
    BY <2>1
  <2>3. n < w /\ V!OnBits(ones, a, b, n) = V!OnBits(ones, c, d, n)
    BY <2>1, <2>2
  <2> HIDE DEF S
  <2>4. V!Bit(a, n) = V!Bit(c, n) /\ V!Bit(b, n) = V!Bit(d, n)
    BY <2>1, <2>3, LowBits
  <2>5. Contributes(ones, a, b, n) = Contributes(ones, c, d, n)
    BY <2>4 DEF Contributes
  <2> QED BY <2>1, <2>3, <2>5, OnBitsStep
<1>3. S = Nat
  <2> HIDE DEF S
  <2>1. S \in SUBSET Nat
    BY DEF S
  <2> QED BY <1>1, <1>2, <2>1, Numbers
<1>4. w \in S
  BY <1>3
<1> QED BY <1>4
-----------------------------------------------------------------------------
(* Words *)

\* The bits of a value are those of its integer, which is one of its type.
Holds(v) == V!InRange(v.type, v.means) /\ v.bits = V!Wrap(v.means, V!Width(v.type))

LEMMA WidthIs ==
    ASSUME NEW t \in ValueTypes
    PROVE  /\ V!Width(t) \in Nat \ {0} /\ t \in {"i32", "u32", "i64", "bool"}
           /\ \E k \in Nat \ {0} : V!Power[W64] = V!Power[V!Width(t)] * k
           /\ \E k \in Nat \ {0} : V!Power[W64 + 1] = V!Power[V!Width(t)] * k
           /\ V!Power[V!Width(t)] \in Nat \ {0} /\ V!Power[V!Width(t) - 1] \in Nat \ {0}
           /\ V!Power[V!Width(t)] = 2 * V!Power[V!Width(t) - 1]
           /\ V!Power[V!Width(t)] <= V!Power[W64] /\ V!Power[W64] \in Nat \ {0}
<1> DEFINE w == V!Width(t)
<1>1. w \in Nat \ {0} /\ w <= W64 /\ t \in {"i32", "u32", "i64", "bool"} /\ W64 \in Nat
  BY ValueTypesAssumption, WidthsAssumption, ParametersAssumption DEF V!Width
<1> HIDE DEF w
<1>2. w - 1 \in Nat /\ (w - 1) + 1 = w /\ W64 - w \in Nat /\ w + (W64 - w) = W64
  BY <1>1
<1>3. (W64 - w) + 1 \in Nat /\ w + ((W64 - w) + 1) = W64 + 1
  BY <1>1, <1>2
<1>4. \E k \in Nat \ {0} : V!Power[W64] = V!Power[w] * k
  <2>1. \E k \in Nat \ {0} : V!Power[w + (W64 - w)] = V!Power[w] * k
    BY <1>1, <1>2, PowerSplits
  <2> QED BY <1>2, <2>1
<1>5. \E k \in Nat \ {0} : V!Power[W64 + 1] = V!Power[w] * k
  <2>1. \E k \in Nat \ {0} : V!Power[w + ((W64 - w) + 1)] = V!Power[w] * k
    BY <1>1, <1>3, PowerSplits
  <2> QED BY <1>3, <2>1
<1>6. V!Power[w] \in Nat \ {0} /\ V!Power[w - 1] \in Nat \ {0} /\ V!Power[W64] \in Nat \ {0}
  BY <1>1, <1>2, PowerIs, PowerGrows
<1>7. V!Power[w] = 2 * V!Power[w - 1]
  <2>1. V!Power[(w - 1) + 1] = 2 * V!Power[w - 1]
    BY <1>2, PowerIs
  <2> QED BY <1>2, <2>1
<1>8. V!Power[w] <= V!Power[W64]
  <2>1. PICK k \in Nat \ {0} : V!Power[W64] = V!Power[w] * k
    BY <1>4
  <2> DEFINE p == V!Power[w]
  <2>2. p \in Nat \ {0}
    BY <1>6
  <2> HIDE DEF p
  <2>3. p * k >= p
    BY <2>2
  <2> QED BY <2>1, <2>3 DEF p
<1> QED BY <1>1, <1>4, <1>5, <1>6, <1>7, <1>8 DEF w

LEMMA RangeIs ==
    ASSUME NEW t \in ValueTypes
    PROVE  /\ V!Low(t) = (IF t \in {"i32", "i64"} THEN -V!Power[V!Width(t) - 1] ELSE 0)
           /\ V!High(t) = (IF t \in {"i32", "i64"} THEN V!Power[V!Width(t) - 1] - 1
                         ELSE V!Power[V!Width(t)] - 1)
BY DEF V!Low, V!High

LEMMA HoldsBits ==
    ASSUME NEW v \in V!Value, Holds(v)
    PROVE  /\ v.bits \in 0..(V!Power[V!Width(v.type)] - 1)
           /\ Congruent(v.bits, v.means, V!Power[V!Width(v.type)])
<1> DEFINE w == V!Width(v.type)
<1>1. w \in Nat /\ v.means \in Int
  BY WidthIs DEF V!Value
<1>2. v.bits = V!Wrap(v.means, w)
  BY DEF Holds
<1> HIDE DEF w
<1>3. v.bits \in 0..(V!Power[w] - 1) /\ Congruent(v.bits, v.means, V!Power[w])
  BY <1>1, <1>2, WrapIs
<1> QED BY <1>3 DEF w

LEMMA HoldsExact ==
    ASSUME NEW v \in V!Value, Holds(v)
    PROVE  V!Exact(v)
<1> DEFINE w == V!Width(v.type) p == V!Power[w] h == V!Power[w - 1]
<1>1. v.type \in ValueTypes /\ v.bits \in Int /\ v.means \in Int
  BY DEF V!Value
<1>2. w \in Nat \ {0} /\ p \in Nat \ {0} /\ h \in Nat \ {0} /\ p = 2 * h
  BY <1>1, WidthIs
<1>3. v.bits \in 0..(p - 1) /\ Congruent(v.bits, v.means, p)
  BY HoldsBits
<1>4. V!Low(v.type) = (IF v.type \in {"i32", "i64"} THEN -h ELSE 0)
      /\ V!High(v.type) = (IF v.type \in {"i32", "i64"} THEN h - 1 ELSE p - 1)
  BY <1>1, RangeIs
<1>5. V!Low(v.type) <= v.means /\ v.means <= V!High(v.type)
  BY DEF Holds, V!InRange
<1>6. V!Denotes(v.type, v.bits) = IF v.bits > V!High(v.type) THEN v.bits - p ELSE v.bits
  BY DEF V!Denotes
<1> HIDE DEF w, p, h
<1>7. CASE v.bits > V!High(v.type)
  <2> DEFINE b == v.bits c == b - p
  <2>1. b \in Int /\ c \in Int /\ p \in Int /\ c = b - p
    BY <1>1, <1>2
  <2> HIDE DEF b, c
  <2>2. Congruent(c, b, p)
    BY <2>1, CongruentTurn
  <2> USE DEF b, c
  <2>3. Congruent(v.bits - p, v.means, p)
    BY <1>1, <1>2, <1>3, <2>1, <2>2, CongruentOn
  <2>4. (v.bits - p) - v.means < p /\ v.means - (v.bits - p) < p
    BY <1>1, <1>2, <1>3, <1>4, <1>5, <1>7
  <2>5. v.bits - p = v.means
    BY <1>1, <1>2, <2>1, <2>3, <2>4, CongruentEqual
  <2> QED BY <1>3, <1>6, <1>7, <2>5 DEF V!Exact, w, p
<1>8. CASE ~ (v.bits > V!High(v.type))
  <2>1. v.bits - v.means < p /\ v.means - v.bits < p
    BY <1>1, <1>2, <1>3, <1>4, <1>5, <1>8
  <2>2. v.bits = v.means
    BY <1>1, <1>2, <1>3, <2>1, CongruentEqual
  <2> QED BY <1>3, <1>6, <1>8, <2>2 DEF V!Exact, w, p
<1> QED BY <1>7, <1>8

\* The signed instructions see the integer of a value, unless it has the top bit
\* of an unsigned one.
LEMMA HoldsSigned ==
    ASSUME NEW v \in V!Value, Holds(v), v.type # "bool", ~V!TopBit(v)
    PROVE  V!Signed(v.bits, V!Width(v.type)) = v.means
<1> DEFINE w == V!Width(v.type) p == V!Power[w] h == V!Power[w - 1] s == V!Signed(v.bits, w)
<1>1. v.type \in ValueTypes /\ v.bits \in Int /\ v.means \in Int
  BY DEF V!Value
<1>2. w \in Nat \ {0} /\ p \in Nat \ {0} /\ h \in Nat \ {0} /\ p = 2 * h
      /\ v.type \in {"i32", "u32", "i64"}
  BY <1>1, WidthIs
<1>3. v.bits \in 0..(p - 1) /\ Congruent(v.bits, v.means, p)
  BY HoldsBits
<1>4. s \in (-h)..(h - 1) /\ Congruent(s, v.bits, p)
  BY <1>2, <1>3, SignedIs
<1>5. CASE v.type \in {"i32", "i64"}
  <2>1. -h <= v.means /\ v.means <= h - 1
    BY <1>1, <1>5, RangeIs DEF Holds, V!InRange
  <2> HIDE DEF w, p, h, s
  <2>2. Congruent(s, v.means, p)
    BY <1>1, <1>2, <1>3, <1>4, CongruentOn
  <2>3. s = v.means
    BY <1>1, <1>2, <1>4, <2>1, <2>2, CongruentEqual
  <2> QED BY <2>3 DEF s, w
<1>6. CASE v.type = "u32"
  <2>1. w = W32 /\ v.bits < h
    <3>1. w = W32
      BY <1>6 DEF V!Width
    <3>2. ~ (v.bits >= V!Power[W32 - 1])
      BY <1>6 DEF V!TopBit
    <3> QED BY <1>1, <1>2, <3>1, <3>2
  <2>2. v.means \in 0..(p - 1)
    BY <1>1, <1>2, <1>6, RangeIs DEF Holds, V!InRange
  <2>3. s = v.bits
    BY <1>1, <1>2, <2>1 DEF V!Signed
  <2> HIDE DEF w, p, h, s
  <2>4. v.bits = v.means
    BY <1>1, <1>2, <1>3, <2>2, CongruentEqual
  <2> QED BY <2>3, <2>4 DEF s, w
<1> QED BY <1>2, <1>5, <1>6
-----------------------------------------------------------------------------
(* The instructions *)

LEMMA WrapSame ==
    ASSUME NEW w \in Nat, NEW x \in Int, NEW y \in Int, Congruent(x, y, V!Power[w])
    PROVE  V!Wrap(x, w) = V!Wrap(y, w)
<1> DEFINE p == V!Power[w] b == V!Wrap(x, w)
<1>1. p \in Nat /\ b \in 0..(p - 1) /\ Congruent(b, x, p)
  BY WrapIs, PowerIs
<1>2. \A c \in 0..(p - 1) : Congruent(c, y, p) => c = V!Wrap(y, w)
  BY WrapIs
<1> HIDE DEF p, b
<1>3. Congruent(x, y, p)
  BY DEF p
<1>4. Congruent(b, y, p)
  BY <1>1, <1>3, CongruentOn
<1> QED BY <1>1, <1>2, <1>4 DEF b

LEMMA WrapInside ==
    ASSUME NEW w \in Nat, NEW x \in 0..(V!Power[w] - 1)
    PROVE  V!Wrap(x, w) = x
<1>1. Congruent(x, x, V!Power[w])
  BY PowerIs, CongruentSelf
<1>2. \A c \in 0..(V!Power[w] - 1) : Congruent(c, x, V!Power[w]) => c = V!Wrap(x, w)
  BY WrapIs, PowerIs
<1> QED BY <1>1, <1>2

LEMMA SignedCongruent ==
    ASSUME NEW w \in Nat \ {0}, NEW b \in 0..(V!Power[w] - 1), NEW n \in Int,
           Congruent(b, n, V!Power[w])
    PROVE  V!Signed(b, w) \in Int /\ Congruent(V!Signed(b, w), n, V!Power[w])
<1> DEFINE p == V!Power[w] s == V!Signed(b, w)
<1>1. p \in Nat /\ s \in Int /\ Congruent(s, b, p) /\ Congruent(b, n, p) /\ b \in Int
  BY SignedIs, PowerIs
<1> HIDE DEF p, s
<1>2. Congruent(s, n, p)
  BY <1>1, CongruentOn
<1> QED BY <1>1, <1>2 DEF p, s

\* add, sub and mul
LEMMA RingOperators ==
    ASSUME NEW w \in Nat \ {0}, NEW a \in 0..(V!Power[w] - 1), NEW b \in 0..(V!Power[w] - 1),
           NEW m \in Int, NEW n \in Int, Congruent(a, m, V!Power[w]), Congruent(b, n, V!Power[w]),
           NEW op \in {"+", "-", "*"}
    PROVE  /\ V!Means(op, m, n) \in Int
           /\ V!Instruction(op, a, b, w) = V!Wrap(V!Means(op, m, n), w)
<1> DEFINE p == V!Power[w] i == V!Signed(a, w) j == V!Signed(b, w)
<1>1. p \in Int /\ i \in Int /\ j \in Int /\ Congruent(i, m, p) /\ Congruent(j, n, p)
  BY SignedCongruent, PowerIs
<1>2. V!Instruction(op, a, b, w) = V!Wrap(V!Means(op, i, j), w)
  BY DEF V!Instruction, V!Comparisons
<1> HIDE DEF p, i, j
<1>3. Congruent(i + j, m + n, p) /\ Congruent(i - j, m - n, p) /\ Congruent(i * j, m * n, p)
  BY <1>1, CongruentSum, CongruentProduct
<1>4. V!Means(op, m, n) \in Int /\ V!Means(op, i, j) \in Int
      /\ Congruent(V!Means(op, i, j), V!Means(op, m, n), p)
  <2>1. CASE op = "+"
    BY <1>1, <1>3, <2>1 DEF V!Means
  <2>2. CASE op = "-"
    BY <1>1, <1>3, <2>2 DEF V!Means
  <2>3. CASE op = "*"
    BY <1>1, <1>3, <2>3 DEF V!Means
  <2> QED BY <2>1, <2>2, <2>3
<1>5. V!Wrap(V!Means(op, i, j), w) = V!Wrap(V!Means(op, m, n), w)
  BY <1>4, WrapSame DEF p
<1> QED BY <1>2, <1>4, <1>5

LEMMA QuotientInt ==
    ASSUME NEW m \in Int, NEW n \in Int \ {0}
    PROVE  V!Quotient(m, n) \in Int
<1>1. V!Abs(m) \in Int /\ V!Abs(n) \in Nat \ {0}
  BY DEF V!Abs
<1>2. V!Abs(m) \div V!Abs(n) \in Int
  BY <1>1
<1> QED BY <1>2 DEF V!Quotient

\* sdiv and srem
LEMMA DivisionOperators ==
    ASSUME NEW w \in Nat \ {0}, NEW a, NEW b, NEW m \in Int, NEW n \in Int \ {0},
           V!Signed(a, w) = m, V!Signed(b, w) = n, NEW op \in {"/", "%"}
    PROVE  /\ V!Means(op, m, n) \in Int
           /\ V!Instruction(op, a, b, w) = V!Wrap(V!Means(op, m, n), w)
<1>1. V!Instruction(op, a, b, w) = V!Wrap(V!Means(op, m, n), w)
  BY DEF V!Instruction, V!Comparisons
<1>2. V!Means(op, m, n) \in Int
  <2> DEFINE q == V!Quotient(m, n)
  <2>1. q \in Int
    BY QuotientInt
  <2>2. V!Means(op, m, n) = IF op = "/" THEN q ELSE m - n * q
    BY DEF V!Means
  <2> HIDE DEF q
  <2>3. m - n * q \in Int
    BY <2>1
  <2> QED BY <2>1, <2>2, <2>3
<1> QED BY <1>1, <1>2

Ones(op) == CASE op = "&" -> V!And [] op = "|" -> V!Or [] op = "^" -> V!Xor

\* and, or and xor
LEMMA BitOperators ==
    ASSUME NEW t \in ValueTypes, NEW op \in {"&", "|", "^"}, NEW m \in Int, NEW n \in Int,
           NEW a \in 0..(V!Power[V!Width(t)] - 1), NEW b \in 0..(V!Power[V!Width(t)] - 1),
           Congruent(a, m, V!Power[V!Width(t)]), Congruent(b, n, V!Power[V!Width(t)])
    PROVE  /\ V!Means(op, m, n) \in Int
           /\ V!Instruction(op, a, b, V!Width(t)) = V!Wrap(V!Means(op, m, n), V!Width(t))
<1> DEFINE w == V!Width(t) p == V!Power[w] u == W64 + 1 ones == Ones(op)
           x == V!OnBits(ones, m, n, u) s == V!Signed(x, u) y == V!OnBits(ones, a, b, w)
           z == V!OnBits(ones, m, n, w)
<1>1. w \in Nat \ {0} /\ p \in Nat \ {0} /\ u \in Nat \ {0} /\ u - w \in Nat /\ w + (u - w) = u
  <2>1. w \in Nat \ {0} /\ w <= W64 /\ W64 \in Nat
    BY ValueTypesAssumption, WidthsAssumption, ParametersAssumption DEF V!Width
  <2>2. p \in Nat \ {0}
    BY WidthIs
  <2> QED BY <2>1, <2>2
<1>2. \E k \in Int : V!Power[u] = p * k
  BY WidthIs
<1>3. V!Means(op, m, n) = s /\ V!Instruction(op, a, b, w) = y
  BY DEF V!Means, V!Instruction, Ones, V!Comparisons
<1>4. V!Power[u] \in Nat
  BY <1>1, PowerIs
<1> HIDE DEF w, ones, u
<1>5. x \in 0..(V!Power[u] - 1) /\ y \in 0..(p - 1) /\ z \in 0..(p - 1)
  BY <1>1, OnBitsRange
<1>6. s \in Int /\ Congruent(s, x, V!Power[u])
  BY <1>1, <1>4, <1>5, SignedIs
<1>7. Congruent(x, z, p)
  <2>1. Congruent(V!OnBits(ones, m, n, w + (u - w)), z, p)
    BY <1>1, OnBitsHigher
  <2> QED BY <1>1, <2>1
<1>8. y = z
  BY <1>1, OnBitsCongruent DEF w
<1> HIDE DEF p, x, s, y, z
<1>9. Congruent(s, x, p)
  BY <1>1, <1>2, <1>4, <1>5, <1>6, CongruentCoarser
<1>10. Congruent(s, z, p)
  BY <1>1, <1>4, <1>5, <1>6, <1>7, <1>9, CongruentOn
<1>11. Congruent(z, s, p)
  BY <1>1, <1>5, <1>6, <1>10, CongruentBack
<1>12. y = V!Wrap(s, w)
  BY <1>1, <1>5, <1>6, <1>8, <1>11, WrapIs DEF p
<1> QED BY <1>3, <1>6, <1>12 DEF w

\* What a word is shifted by is the integer that is meant.
LEMMA ShiftCount ==
    ASSUME NEW v \in V!Value, Holds(v), v.type # "bool", ~ (v.bits >= V!Width(v.type))
    PROVE  v.bits = v.means /\ v.bits \in Nat
<1> DEFINE w == V!Width(v.type) b == v.bits
<1>1. w \in Nat \ {0} /\ b \in 0..(V!Power[w] - 1) /\ V!Power[w] \in Nat /\ V!Power[w - 1] \in Nat
  BY HoldsBits, WidthIs DEF V!Value
<1>2. V!Power[w - 1] > w - 1
  BY <1>1, PowerGrows
<1>3. ~ (b >= V!Power[w - 1])
  <2> HIDE DEF w, b
  <2>1. ~ (b >= w)
    BY DEF w, b
  <2> QED BY <1>1, <1>2, <2>1
<1>4. ~V!TopBit(v)
  <2>1. v.type = "u32" => V!Width(v.type) = W32
    BY DEF V!Width
  <2> QED BY <1>3, <2>1 DEF V!TopBit
<1>5. V!Signed(b, w) = b
  BY <1>3 DEF V!Signed
<1>6. V!Signed(b, w) = v.means
  BY <1>4, HoldsSigned
<1> QED BY <1>1, <1>5, <1>6

\* shl and ashr
LEMMA ShiftOperators ==
    ASSUME NEW w \in Nat \ {0}, NEW a \in 0..(V!Power[w] - 1), NEW b \in Nat, NEW m \in Int,
           Congruent(a, m, V!Power[w])
    PROVE  /\ V!Means("<<", m, b) \in Int /\ V!Means(">>", m, b) \in Int
           /\ V!Instruction("<<", a, b, w) = V!Wrap(V!Means("<<", m, b), w)
           /\ V!Signed(a, w) = m => V!Instruction(">>", a, b, w) = V!Wrap(V!Means(">>", m, b), w)
<1> DEFINE p == V!Power[w] q == V!Power[b]
<1>1. p \in Nat /\ q \in Nat \ {0}
  BY PowerIs, PowerGrows
<1>2. V!Means("<<", m, b) = m * q /\ V!Means(">>", m, b) = m \div q
  BY DEF V!Means
<1>3. V!Instruction("<<", a, b, w) = V!Wrap(a * q, w)
      /\ V!Instruction(">>", a, b, w) = V!Wrap(V!Signed(a, w) \div q, w)
  BY DEF V!Instruction, V!Comparisons
<1> HIDE DEF p, q
<1>4. m * q \in Int /\ m \div q \in Int /\ a \in Int /\ a * q \in Int
  BY <1>1
<1>5. Congruent(a * q, m * q, p)
  <2>1. Congruent(q, q, p) /\ Congruent(a, m, p)
    BY <1>1, CongruentSelf DEF p
  <2> QED BY <1>1, <1>4, <2>1, CongruentProduct
<1>6. V!Wrap(a * q, w) = V!Wrap(m * q, w)
  BY <1>4, <1>5, WrapSame DEF p
<1> QED BY <1>2, <1>3, <1>4, <1>6

LEMMA BoolIs ==
    ASSUME NEW v \in V!Value, Holds(v), v.type = "bool"
    PROVE  v.bits = v.means /\ v.bits \in 0..1
<1>1. V!Width("bool") = 1 /\ V!Power[1] = 2
  <2>1. V!Power[0 + 1] = 2 * V!Power[0]
    BY PowerIs
  <2> QED BY <2>1, PowerIs DEF V!Width
<1>2. V!High("bool") = 1
  BY <1>1 DEF V!High
<1>3. v.bits \in 0..1
  BY <1>1, HoldsBits
<1>4. V!Denotes("bool", v.bits) = v.bits
  BY <1>2, <1>3 DEF V!Denotes
<1> QED BY <1>3, <1>4, HoldsExact DEF V!Exact

\* and and or of bools
LEMMA LogicalOperators ==
    ASSUME NEW a \in 0..1, NEW b \in 0..1, NEW op \in V!Logical
    PROVE  V!Instruction(op, a, b, 1) = V!Means(op, a, b) /\ V!Means(op, a, b) \in 0..1
<1>1. V!Power[0] = 1
  BY PowerIs
<1>2. V!Bit(a, 0) = a /\ V!Bit(b, 0) = b
  BY <1>1 DEF V!Bit
<1>3. ASSUME NEW ones
      PROVE  V!OnBits(ones, a, b, 1) = IF a + b \in ones THEN 1 ELSE 0
  <2>1. V!OnBits(ones, a, b, 0 + 1) = V!OnBits(ones, a, b, 0) + Contributes(ones, a, b, 0)
    BY OnBitsStep
  <2>2. V!OnBits(ones, a, b, 0) = 0
    BY OnBitsStep
  <2> QED BY <1>1, <1>2, <2>1, <2>2 DEF Contributes
<1>4. CASE op = "&&"
  <2>1. V!Instruction(op, a, b, 1) = V!OnBits(V!And, a, b, 1) /\ V!Means(op, a, b) = a * b
    BY <1>4 DEF V!Instruction, V!Means, V!Comparisons
  <2>2. V!OnBits(V!And, a, b, 1) = IF a + b \in V!And THEN 1 ELSE 0
    BY <1>3
  <2>3. a * b \in 0..1 /\ a * b = IF a + b = 2 THEN 1 ELSE 0
    OBVIOUS
  <2> QED BY <2>1, <2>2, <2>3 DEF V!And
<1>5. CASE op = "||"
  <2>1. V!Instruction(op, a, b, 1) = V!OnBits(V!Or, a, b, 1) /\ V!Means(op, a, b) = a + b - a * b
    BY <1>5 DEF V!Instruction, V!Means, V!Comparisons
  <2>2. V!OnBits(V!Or, a, b, 1) = IF a + b \in V!Or THEN 1 ELSE 0
    BY <1>3
  <2>3. a + b - a * b \in 0..1 /\ a + b - a * b = IF a + b \in {1, 2} THEN 1 ELSE 0
    OBVIOUS
  <2> QED BY <2>1, <2>2, <2>3 DEF V!Or
<1> QED BY <1>4, <1>5 DEF V!Logical

\* icmp of values: of one type, whatever they are; of two, without a top bit.
LEMMA SameSigned ==
    ASSUME NEW a \in V!Value, NEW b \in V!Value, Holds(a), Holds(b), a.type = b.type
    PROVE  V!Signed(a.bits, V!Width(a.type)) = V!Signed(b.bits, V!Width(b.type)) <=> a.means = b.means
<1> DEFINE w == V!Width(a.type) p == V!Power[w]
<1>1. w \in Nat \ {0} /\ p \in Nat \ {0} /\ a.bits \in 0..(p - 1) /\ b.bits \in 0..(p - 1)
  BY HoldsBits, WidthIs DEF V!Value
<1>2. a.bits = b.bits => a.means = b.means
  BY HoldsExact DEF V!Exact
<1>3. a.means = b.means => a.bits = b.bits
  BY DEF Holds
<1>4. V!Signed(a.bits, w) = V!Signed(b.bits, w) => a.bits = b.bits
  BY <1>1 DEF V!Signed
<1> QED BY <1>2, <1>3, <1>4
LEMMA Comparing ==
    ASSUME NEW a \in V!Value, NEW b \in V!Value, Holds(a), Holds(b), NEW op \in V!Comparisons,
           V!Takes(op, a.type, b.type), ~V!Mistaken(op, a, b)
    PROVE  /\ V!Means(op, a.means, b.means) \in 0..1
           /\ V!Instruction(op, a.bits, b.bits, V!Width(a.type)) = V!Means(op, a.means, b.means)
<1> DEFINE w == V!Width(a.type) i == V!Signed(a.bits, w) j == V!Signed(b.bits, w)
<1>1. V!Width(b.type) = w
  BY DEF V!Takes
<1>2. V!Instruction(op, a.bits, b.bits, w) = V!Means(op, i, j)
  BY DEF V!Instruction, V!Comparisons, V!Arithmetic
<1>3. a.means \in Int /\ b.means \in Int /\ a.type \in ValueTypes /\ b.type \in ValueTypes
  BY DEF V!Value
<1>4. i \in Int /\ j \in Int
  BY <1>1, <1>3, HoldsBits, SignedIs, WidthIs
<1>5. i = j <=> a.means = b.means
  <2>1. CASE a.type = b.type
    BY <1>1, <2>1, SameSigned
  <2>2. CASE a.type # b.type
    <3>1. ~V!TopBit(a) /\ ~V!TopBit(b)
      BY <2>2 DEF V!Mistaken
    <3>2. a.type # "bool" /\ b.type # "bool"
      BY <1>1, <1>3, <2>2, ValueTypesAssumption, WidthsAssumption, ParametersAssumption
      DEF V!Width
    <3>3. i = a.means /\ j = b.means
      BY <1>1, <3>1, <3>2, HoldsSigned
    <3> QED BY <3>3
  <2> QED BY <2>1, <2>2
<1>6. op \in {"<", "<="} => i = a.means /\ j = b.means
  <2> SUFFICES ASSUME op \in {"<", "<="} PROVE i = a.means /\ j = b.means
    OBVIOUS
  <2>1. ~V!TopBit(a) /\ ~V!TopBit(b)
    BY DEF V!Mistaken
  <2>2. a.type # "bool"
    BY DEF V!Takes, V!Logical
  <2>3. b.type # "bool"
    BY <1>1, <1>3, <2>2, ValueTypesAssumption, WidthsAssumption, ParametersAssumption
    DEF V!Width
  <2> QED BY <1>1, <2>1, <2>2, <2>3, HoldsSigned
<1> DEFINE m == a.means n == b.means
<1> HIDE DEF i, j, m, n
<1>7. m \in Int /\ n \in Int /\ (i = j <=> m = n) /\ (op \in {"<", "<="} => i = m /\ j = n)
  BY <1>3, <1>5, <1>6 DEF m, n
<1>8. V!Means(op, i, j) = V!Means(op, m, n) /\ V!Means(op, m, n) \in 0..1
  <2>1. CASE op = "=="
    BY <1>7, <2>1 DEF V!Means, V!Truth
  <2>2. CASE op = "!="
    BY <1>7, <2>2 DEF V!Means, V!Truth
  <2>3. CASE op = "<"
    BY <1>7, <2>3 DEF V!Means, V!Truth
  <2>4. CASE op = "<="
    BY <1>7, <2>4 DEF V!Means, V!Truth
  <2> QED BY <2>1, <2>2, <2>3, <2>4 DEF V!Comparisons
<1> QED BY <1>2, <1>8 DEF m, n

\* What an operator computes holds what it means.
LEMMA BinaryHolds ==
    ASSUME NEW a \in V!Value, NEW b \in V!Value, Holds(a), Holds(b),
           NEW op \in V!Arithmetic \cup V!Comparisons \cup V!BitOps \cup V!Logical,
           V!Takes(op, a.type, b.type), ~V!Undefined(op, a.bits, b.bits, V!Width(a.type)),
           ~V!Mistaken(op, a, b)
    PROVE  /\ V!BinaryType(a.type, b.type, op) \in ValueTypes
           /\ V!Means(op, a.means, b.means) \in Int
           /\ V!Instruction(op, a.bits, b.bits, V!Width(a.type)) =
                  V!Wrap(V!Means(op, a.means, b.means), V!Width(V!BinaryType(a.type, b.type, op)))
<1> DEFINE w == V!Width(a.type) r == V!BinaryType(a.type, b.type, op)
           m == a.means n == b.means x == a.bits y == b.bits
           Good == r \in ValueTypes /\ V!Means(op, m, n) \in Int
                   /\ V!Instruction(op, x, y, w) = V!Wrap(V!Means(op, m, n), V!Width(r))
<1>1. V!Width(b.type) = w /\ a.type \in ValueTypes /\ b.type \in ValueTypes /\ m \in Int /\ n \in Int
      /\ {"i32", "bool"} \subseteq ValueTypes
  BY ValueTypesAssumption, WidthsAssumption, ParametersAssumption DEF V!Takes, V!Value
<1>2. w \in Nat \ {0} /\ x \in 0..(V!Power[w] - 1) /\ y \in 0..(V!Power[w] - 1)
      /\ Congruent(x, m, V!Power[w]) /\ Congruent(y, n, V!Power[w])
  BY <1>1, WidthIs, HoldsBits
<1>3. V!Width("bool") = 1 /\ V!Power[1] = 2
  <2>1. V!Power[0 + 1] = 2 * V!Power[0]
    BY PowerIs
  <2> QED BY <2>1, PowerIs DEF V!Width
<1>4. CASE op \in V!Comparisons
  <2>1. r = "bool"
    BY <1>4 DEF V!BinaryType
  <2>2. V!Means(op, m, n) \in 0..1 /\ V!Instruction(op, x, y, w) = V!Means(op, m, n)
    BY <1>4, Comparing
  <2>3. V!Wrap(V!Means(op, m, n), 1) = V!Means(op, m, n)
    BY <1>3, <2>2, WrapInside
  <2> QED BY <1>1, <1>3, <2>1, <2>2, <2>3
<1>5. CASE op \in V!Logical
  <2>1. r = "bool"
    BY <1>5 DEF V!BinaryType
  <2>2. a.type = "bool" /\ b.type = "bool" /\ w = 1
    <3>1. a.type = "bool"
      BY <1>5 DEF V!Takes
    <3> QED BY <1>1, <1>3, <3>1, ValueTypesAssumption, WidthsAssumption, ParametersAssumption
           DEF V!Width
  <2>3. x = m /\ y = n /\ x \in 0..1 /\ y \in 0..1
    BY <2>2, BoolIs
  <2>4. V!Instruction(op, x, y, 1) = V!Means(op, x, y) /\ V!Means(op, x, y) \in 0..1
    BY <1>5, <2>3, LogicalOperators
  <2>5. V!Wrap(V!Means(op, x, y), 1) = V!Means(op, x, y)
    BY <1>3, <2>4, WrapInside
  <2> QED BY <1>1, <1>3, <2>1, <2>2, <2>3, <2>4, <2>5
<1>6. CASE op \in V!Arithmetic \cup V!BitOps
  <2>0. op \notin V!Comparisons /\ op \notin V!Logical /\ op \notin {"==", "!="}
    BY <1>6 DEF V!Arithmetic, V!BitOps, V!Comparisons, V!Logical
  <2>1. a.type # "bool" /\ b.type # "bool"
    <3>1. a.type # "bool"
      BY <2>0 DEF V!Takes
    <3> QED BY <1>1, <1>3, <3>1, ValueTypesAssumption, WidthsAssumption, ParametersAssumption
           DEF V!Width
  <2>2. r \in ValueTypes /\ V!Width(r) = w
    <3>1. CASE a.type = b.type
      BY <1>1, <2>0, <3>1 DEF V!BinaryType
    <3>2. CASE a.type # b.type
      <4>1. r = "i32"
        BY <2>0, <3>2 DEF V!BinaryType
      <4> QED BY <1>1, <2>1, <3>2, <4>1, ValueTypesAssumption, WidthsAssumption, ParametersAssumption
             DEF V!Width
    <3> QED BY <3>1, <3>2
  <2>3. CASE op \in {"+", "-", "*"}
    <3>1. V!Means(op, m, n) \in Int /\ V!Instruction(op, x, y, w) = V!Wrap(V!Means(op, m, n), w)
      BY <1>1, <1>2, <2>3, RingOperators
    <3> QED BY <2>2, <3>1
  <2>4. CASE op \in {"/", "%"}
    <3>1. ~V!TopBit(a) /\ ~V!TopBit(b) /\ y # 0
      BY <2>4 DEF V!Mistaken, V!Undefined
    <3>2. V!Signed(x, w) = m /\ V!Signed(y, w) = n
      BY <1>1, <2>1, <3>1, HoldsSigned
    <3>3. n # 0
      <4>1. 0 \in 0..(V!Power[w] - 1)
        BY <1>2, PowerIs, PowerGrows
      <4>2. V!Wrap(0, w) = 0
        BY <1>2, <4>1, WrapInside
      <4>3. y = V!Wrap(n, w)
        BY <1>1 DEF Holds
      <4> QED BY <3>1, <4>2, <4>3
    <3>4. V!Means(op, m, n) \in Int /\ V!Instruction(op, x, y, w) = V!Wrap(V!Means(op, m, n), w)
      BY <1>1, <1>2, <2>4, <3>2, <3>3, DivisionOperators
    <3> QED BY <2>2, <3>4
  <2>5. CASE op \in {"&", "|", "^"}
    <3>1. V!Means(op, m, n) \in Int /\ V!Instruction(op, x, y, w) = V!Wrap(V!Means(op, m, n), w)
      BY <1>1, <1>2, <2>5, BitOperators
    <3> QED BY <2>2, <3>1
  <2>6. CASE op \in {"<<", ">>"}
    <3>1. ~ (y >= w)
      BY <2>6 DEF V!Undefined
    <3>2. y = n /\ y \in Nat
      BY <1>1, <2>1, <3>1, ShiftCount
    <3>3. op = ">>" => V!Signed(x, w) = m
      <4>1. op = ">>" => ~V!TopBit(a)
        BY DEF V!Mistaken
      <4> QED BY <2>1, <4>1, HoldsSigned
    <3>4. V!Means(op, m, n) \in Int /\ V!Instruction(op, x, y, w) = V!Wrap(V!Means(op, m, n), w)
      BY <1>1, <1>2, <2>6, <3>2, <3>3, ShiftOperators
    <3> QED BY <2>2, <3>4
  <2> QED BY <1>6, <2>3, <2>4, <2>5, <2>6 DEF V!Arithmetic, V!BitOps
<1> QED BY <1>4, <1>5, <1>6

\* neg and not
LEMMA UnaryHolds ==
    ASSUME NEW v \in V!Value, Holds(v)
    PROVE  /\ -v.means \in Int /\ 1 - v.means \in Int
           /\ (IF v.type = "u32" THEN V!Power[V!Width(v.type)] ELSE 0) - 1 - v.means \in Int
           /\ V!Wrap(-v.bits, V!Width(v.type)) = V!Wrap(-v.means, V!Width(v.type))
           /\ V!Power[V!Width(v.type)] - 1 - v.bits =
                  V!Wrap((IF v.type = "u32" THEN V!Power[V!Width(v.type)] ELSE 0) - 1 - v.means,
                       V!Width(v.type))
           /\ v.type = "bool" => 1 - v.bits = V!Wrap(1 - v.means, V!Width("bool"))
<1> DEFINE w == V!Width(v.type) p == V!Power[w] m == v.means x == v.bits
           top == IF v.type = "u32" THEN p ELSE 0
<1>1. w \in Nat \ {0} /\ p \in Nat \ {0} /\ x \in 0..(p - 1) /\ Congruent(x, m, p) /\ m \in Int
  BY HoldsBits, WidthIs DEF V!Value
<1> HIDE DEF w, p, m, x
<1>2. -m \in Int /\ 1 - m \in Int /\ top - 1 - m \in Int /\ top \in {p, 0}
  BY <1>1
<1>3. V!Wrap(-x, w) = V!Wrap(-m, w)
  <2>1. Congruent(0, 0, p)
    BY <1>1, CongruentSelf
  <2>2. Congruent(0 - x, 0 - m, p)
    BY <1>1, <2>1, CongruentSum
  <2>3. 0 - x = -x /\ 0 - m = -m /\ -x \in Int
    BY <1>1
  <2> QED BY <1>1, <1>2, <2>2, <2>3, WrapSame DEF p
<1>4. p - 1 - x = V!Wrap(top - 1 - m, w)
  <2>1. Congruent(p - 1, top - 1, p)
    <3>1. CASE top = p
      BY <1>1, <3>1, CongruentSelf
    <3>2. CASE top = 0
      <4>1. 1 \in Int /\ p - 1 = (top - 1) + 1 * p
        BY <1>1, <3>2
      <4> QED BY <4>1 DEF Congruent
    <3> QED BY <1>2, <3>1, <3>2
  <2> HIDE DEF top
  <2>2. Congruent((p - 1) - x, (top - 1) - m, p)
    BY <1>1, <1>2, <2>1, CongruentSum
  <2>3. (p - 1) - x \in 0..(p - 1) /\ (top - 1) - m \in Int
    BY <1>1, <1>2
  <2> QED BY <1>1, <2>2, <2>3, WrapIs DEF p
<1>5. v.type = "bool" => 1 - x = V!Wrap(1 - m, V!Width("bool"))
  <2> SUFFICES ASSUME v.type = "bool" PROVE 1 - x = V!Wrap(1 - m, V!Width("bool"))
    OBVIOUS
  <2>1. x = m /\ x \in 0..1
    BY BoolIs DEF x, m
  <2>2. V!Width("bool") = 1 /\ V!Power[1] = 2
    <3>1. V!Power[0 + 1] = 2 * V!Power[0]
      BY PowerIs
    <3> QED BY <3>1, PowerIs DEF V!Width
  <2>3. 1 - x \in 0..(V!Power[1] - 1)
    BY <2>1, <2>2
  <2>4. V!Wrap(1 - x, 1) = 1 - x
    BY <2>3, WrapInside
  <2> QED BY <2>1, <2>2, <2>4
<1> QED BY <1>2, <1>3, <1>4, <1>5 DEF w, p, m, x
-----------------------------------------------------------------------------
(* The inductive invariant *)

\* What waits, and what a variable was given, holds its integer.
ValuesInv ==
    /\ V!TypeOK
    /\ \A i \in 1..V!Depth : Holds(words[i])
    /\ \A x \in Variables : \/ held[x] = V!Undeclared \/ held[x] = V!Unset(held[x].type)
                        \/ Holds(held[x])
    /\ V!SaysInts

LEMMA HeldIs ==
    ASSUME NEW t \in ValueTypes, NEW b, NEW n \in Int, V!InRange(t, n), b = V!Wrap(n, V!Width(t))
    PROVE  LET v == [type |-> t, bits |-> b, means |-> n]
           IN  v \in V!Value /\ Holds(v) /\ v.bits < V!Power[V!Width(t)]
<1> DEFINE v == [type |-> t, bits |-> b, means |-> n] w == V!Width(t)
<1>1. w \in Nat /\ V!Power[w] \in Nat /\ V!Power[w] <= V!Power[W64] /\ V!Power[W64] \in Nat
  BY WidthIs
<1>2. b \in 0..(V!Power[w] - 1)
  BY <1>1, WrapIs
<1>3. b \in 0..(V!Power[W64] - 1) /\ b < V!Power[w]
  BY <1>1, <1>2
<1>4. v \in V!Value
  BY <1>3 DEF V!Value
<1>5. Holds(v)
  BY DEF Holds
<1> QED BY <1>3, <1>4, <1>5

LEMMA NothingIs ==
       /\ V!Undeclared \in V!Value /\ V!NothingSaid \in [value : V!Value, printed : Int]
           /\ \A t \in ValueTypes : V!Unset(t) \in V!Value
<1>1. V!Power[W64] \in Nat \ {0} /\ "bool" \in ValueTypes
  BY PowerIs, PowerGrows, ValueTypesAssumption, WidthsAssumption, ParametersAssumption
<1> QED BY <1>1 DEF V!Undeclared, V!NothingSaid, V!Unset, V!Value

LEMMA LeaveKept == ASSUME ValuesInv, V!Leave PROVE ValuesInv'
<1>1. V!NothingSaid \in [value : V!Value, printed : Int]
  BY NothingIs
<1>2. V!TypeOK'
  BY <1>1 DEF ValuesInv, V!TypeOK, V!Leave, V!Depth
<1> QED BY <1>2 DEF ValuesInv, V!Leave, V!Depth, V!SaysInts, V!NothingSaid, V!Undeclared

LEMMA ReplaceKept ==
    ASSUME ValuesInv, NEW n \in 0..V!Depth, V!Depth - n < MaxValues,
           NEW t \in ValueTypes, NEW b, NEW m \in Int,
           V!InRange(t, m) => b = V!Wrap(m, V!Width(t)),
           V!Replace(n, t, b, m)
    PROVE  ValuesInv'
<1> DEFINE v == [type |-> t, bits |-> b, means |-> m] s == SubSeq(words, 1, V!Depth - n)
<1>1. CASE V!InRange(t, m)
  <2>1. v \in V!Value /\ Holds(v) /\ v.bits < V!Power[V!Width(v.type)]
    BY <1>1, HeldIs
  <2>2. words' = Append(s, v) /\ said' = V!NothingSaid /\ UNCHANGED <<held, gone>>
    BY <1>1 DEF V!Replace
  <2>3. words \in Seq(V!Value) /\ V!Depth \in Nat /\ V!Depth <= MaxValues
    BY DEF ValuesInv, V!TypeOK, V!Depth
  <2>4. s \in Seq(V!Value) /\ Len(s) = V!Depth - n /\ \A i \in 1..(V!Depth - n) : s[i] = words[i]
    BY <2>3 DEF V!Depth
  <2> HIDE DEF s, v
  <2>5. words' \in Seq(V!Value) /\ Len(words') = V!Depth - n + 1
        /\ \A i \in 1..Len(words') : words'[i] = v \/ \E j \in 1..V!Depth : words'[i] = words[j]
    <3>1. Len(s) = V!Depth - n /\ V!Depth - n \in Nat /\ V!Depth - n <= V!Depth
      BY <2>3, <2>4
    <3>2. words' \in Seq(V!Value) /\ Len(words') = Len(s) + 1 /\ words'[Len(s) + 1] = v
          /\ \A i \in 1..Len(s) : words'[i] = s[i]
      BY <2>1, <2>2, <2>4
    <3>3. ASSUME NEW i \in 1..Len(words')
          PROVE  words'[i] = v \/ \E j \in 1..V!Depth : words'[i] = words[j]
      <4>1. i = Len(s) + 1 \/ (i \in 1..(V!Depth - n) /\ i \in 1..Len(s) /\ i \in 1..V!Depth)
        BY <2>3, <3>1, <3>2
      <4> QED BY <2>4, <3>2, <4>1
    <3> QED BY <3>1, <3>2, <3>3
  <2>6. V!Depth' <= MaxValues
    BY <2>3, <2>5, ValueTypesAssumption, WidthsAssumption, ParametersAssumption DEF V!Depth
  <2>7. \A i \in 1..V!Depth' : Holds(words'[i]) /\ words'[i].bits < V!Power[V!Width(words'[i].type)]
    BY <2>1, <2>5 DEF ValuesInv, V!TypeOK, V!Depth
  <2>8. V!NothingSaid \in [value : V!Value, printed : Int]
    BY NothingIs
  <2>9. V!TypeOK'
    BY <2>2, <2>5, <2>6, <2>7, <2>8 DEF ValuesInv, V!TypeOK
  <2>10. (\A i \in 1..V!Depth : Holds(words[i]))'
    BY <2>7
  <2> QED BY <2>2, <2>9, <2>10 DEF ValuesInv, V!SaysInts, V!NothingSaid, V!Undeclared
<1>2. CASE ~V!InRange(t, m)
  BY <1>2, LeaveKept DEF V!Replace
<1> QED BY <1>1, <1>2

LEMMA WaitingIs ==
    ASSUME ValuesInv, NEW k \in 0..1, V!Depth > k
    PROVE  V!Operand(k) \in V!Value /\ Holds(V!Operand(k)) /\ V!Operand(k).type \in ValueTypes
           /\ V!Operand(k).means \in Int
<1>1. V!Depth \in Nat /\ V!Depth - k \in 1..V!Depth /\ words \in Seq(V!Value)
  BY DEF ValuesInv, V!TypeOK, V!Depth
<1>2. V!Operand(k) \in V!Value /\ Holds(V!Operand(k))
  BY <1>1 DEF ValuesInv, V!Operand, V!Depth
<1> QED BY <1>2 DEF V!Value

LEMMA LiteralKept ==
    ASSUME ValuesInv,
           \/ \E n \in 0..MaxLiteral : V!IntegerLiteral(n)
           \/ \E b \in BOOLEAN : V!BoolLiteral(b)
           \/ \E t \in ValueTypes \cap {"i64"} : \E n \in V!Low(t)..V!High(t) : V!CallResult(t, n)
    PROVE  ValuesInv'
<1>0. /\ V!Depth \in Nat /\ 0 \in 0..V!Depth /\ V!Depth - 0 = V!Depth
      /\ {"i32", "bool"} \subseteq ValueTypes
  BY ValueTypesAssumption, WidthsAssumption, ParametersAssumption
  DEF ValuesInv, V!TypeOK, V!Depth
<1>1. ASSUME NEW n \in 0..MaxLiteral, V!IntegerLiteral(n) PROVE ValuesInv'
  <2>1. V!Wrap(n, W32) = V!Wrap(n, V!Width("i32")) /\ n \in Int
    BY ValueTypesAssumption, WidthsAssumption, ParametersAssumption DEF V!Width
  <2> QED BY <1>0, <1>1, <2>1, ReplaceKept DEF V!IntegerLiteral
<1>2. ASSUME NEW b \in BOOLEAN, V!BoolLiteral(b) PROVE ValuesInv'
  <2>1. V!Width("bool") = 1 /\ V!Power[1] = 2
    <3>1. V!Power[0 + 1] = 2 * V!Power[0]
      BY PowerIs
    <3> QED BY <3>1, PowerIs DEF V!Width
  <2>2. V!Truth(b) \in 0..(V!Power[1] - 1)
    BY <2>1 DEF V!Truth
  <2>3. V!Truth(b) = V!Wrap(V!Truth(b), V!Width("bool")) /\ V!Truth(b) \in Int
    BY <2>1, <2>2, WrapInside
  <2> QED BY <1>0, <1>2, <2>3, ReplaceKept DEF V!BoolLiteral
<1>3. ASSUME NEW t \in ValueTypes \cap {"i64"}, NEW n \in V!Low(t)..V!High(t), V!CallResult(t, n)
      PROVE  ValuesInv'
  <2>1. n \in Int /\ t \in ValueTypes
    BY RangeIs, WidthIs
  <2> QED BY <1>0, <1>3, <2>1, ReplaceKept DEF V!CallResult
<1> QED BY <1>1, <1>2, <1>3

LEMMA IdentifierKept ==
    ASSUME ValuesInv, NEW x \in Variables, V!Identifier(x)
    PROVE  ValuesInv'
<1> DEFINE v == held[x]
<1>1. v \in V!Value /\ V!Depth \in Nat /\ v.type \in ValueTypes /\ v.means \in Int /\ v # V!Undeclared
      /\ V!Depth < MaxValues
  BY DEF ValuesInv, V!TypeOK, V!Depth, V!Identifier, V!Value
<1>2. CASE v = V!Unset(v.type)
  BY <1>2, LeaveKept DEF V!Identifier
<1>3. CASE v # V!Unset(v.type)
  <2>1. Holds(v)
    BY <1>1, <1>3 DEF ValuesInv
  <2>2. V!Replace(0, v.type, v.bits, v.means)
    BY <1>3 DEF V!Identifier
  <2>3. v.bits = V!Wrap(v.means, V!Width(v.type))
    BY <2>1 DEF Holds
  <2> HIDE DEF v
  <2>4. 0 \in 0..V!Depth /\ V!Depth - 0 < MaxValues
    BY <1>1
  <2> QED BY <1>1, <2>2, <2>3, <2>4, ReplaceKept
<1> QED BY <1>2, <1>3

LEMMA ArgumentKept == ASSUME ValuesInv, V!Argument PROVE ValuesInv'
<1> DEFINE v == V!Operand(0)
<1>1. /\ V!Depth \in Nat /\ V!Depth > 0 /\ V!Depth <= MaxValues
      /\ "i64" \in ValueTypes /\ V!Width(v.type) = W32
  BY DEF V!Argument, ValuesInv, V!TypeOK, V!Depth
<1>2. v \in V!Value /\ Holds(v) /\ v.means \in Int /\ v.type \in ValueTypes
  BY <1>1, WaitingIs
<1>3. CASE V!TopBit(v)
  BY <1>3, LeaveKept DEF V!Argument
<1>4. CASE ~V!TopBit(v)
  <2>1. V!Replace(1, "i64", V!Wrap(V!Signed(v.bits, W32), W64), v.means)
    BY <1>4 DEF V!Argument
  <2> HIDE DEF v
  <2>2. v.type # "bool"
    BY <1>1, ValueTypesAssumption, WidthsAssumption, ParametersAssumption DEF V!Width
  <2>3. V!Signed(v.bits, W32) = v.means
    BY <1>1, <1>2, <1>4, <2>2, HoldsSigned
  <2>4. V!Width("i64") = W64 /\ 1 \in 0..V!Depth /\ V!Depth - 1 < MaxValues
    BY <1>1, ValueTypesAssumption, WidthsAssumption, ParametersAssumption DEF V!Width
  <2> QED BY <1>1, <1>2, <2>1, <2>3, <2>4, ReplaceKept
<1> QED BY <1>3, <1>4

LEMMA BinaryKept ==
    ASSUME ValuesInv, NEW op \in V!Arithmetic \cup V!Comparisons \cup V!BitOps \cup V!Logical,
           V!BinaryExpr(op)
    PROVE  ValuesInv'
<1> DEFINE a == V!Operand(1) b == V!Operand(0) w == V!Width(a.type)
<1>1. /\ V!Depth \in Nat /\ V!Depth > 1 /\ V!Depth > 0 /\ V!Depth <= MaxValues
      /\ V!Takes(op, a.type, b.type)
  BY DEF V!BinaryExpr, ValuesInv, V!TypeOK, V!Depth
<1>2. a \in V!Value /\ Holds(a) /\ b \in V!Value /\ Holds(b)
  BY <1>1, WaitingIs
<1>3. CASE V!Undefined(op, a.bits, b.bits, w) \/ V!Mistaken(op, a, b)
  BY <1>3, LeaveKept DEF V!BinaryExpr
<1>4. CASE ~ (V!Undefined(op, a.bits, b.bits, w) \/ V!Mistaken(op, a, b))
  <2> DEFINE t == V!BinaryType(a.type, b.type, op) c == V!Instruction(op, a.bits, b.bits, w)
             m == V!Means(op, a.means, b.means)
  <2>1. V!Replace(2, t, c, m)
    BY <1>4 DEF V!BinaryExpr
  <2>2. t \in ValueTypes /\ m \in Int /\ c = V!Wrap(m, V!Width(t))
    BY <1>1, <1>2, <1>4, BinaryHolds
  <2>3. 2 \in 0..V!Depth /\ V!Depth - 2 < MaxValues
    BY <1>1, ValueTypesAssumption, WidthsAssumption, ParametersAssumption
  <2> HIDE DEF t, c, m
  <2> QED BY <2>1, <2>2, <2>3, ReplaceKept
<1> QED BY <1>3, <1>4

LEMMA UnaryKept ==
    ASSUME ValuesInv, NEW op \in {"-", "~", "!"}, V!UnaryExpr(op)
    PROVE  ValuesInv'
<1> DEFINE v == V!Operand(0) w == V!Width(v.type) p == V!Power[w]
           n == (IF v.type = "u32" THEN p ELSE 0) - 1 - v.means
<1>1. V!Depth \in Nat /\ V!Depth > 0 /\ V!Depth <= MaxValues /\ ((v.type = "bool") = (op = "!"))
  BY DEF V!UnaryExpr, ValuesInv, V!TypeOK, V!Depth
<1>2. v \in V!Value /\ Holds(v) /\ v.type \in ValueTypes
  BY <1>1, WaitingIs
<1>3. 1 \in 0..V!Depth /\ V!Depth - 1 < MaxValues /\ "bool" \in ValueTypes
  BY <1>1, ValueTypesAssumption, WidthsAssumption, ParametersAssumption
<1>4. /\ op = "-" => V!Replace(1, v.type, V!Wrap(-v.bits, w), -v.means)
      /\ op = "~" => V!Replace(1, v.type, p - 1 - v.bits, n)
      /\ op = "!" => V!Replace(1, "bool", 1 - v.bits, 1 - v.means)
  BY DEF V!UnaryExpr
<1>5. /\ -v.means \in Int /\ 1 - v.means \in Int /\ n \in Int
      /\ V!Wrap(-v.bits, w) = V!Wrap(-v.means, w) /\ p - 1 - v.bits = V!Wrap(n, w)
      /\ v.type = "bool" => 1 - v.bits = V!Wrap(1 - v.means, V!Width("bool"))
  BY <1>2, UnaryHolds
<1> HIDE DEF v, w, p, n
<1>6. CASE op = "-"
  BY <1>2, <1>3, <1>4, <1>5, <1>6, ReplaceKept DEF w
<1>7. CASE op = "~"
  BY <1>2, <1>3, <1>4, <1>5, <1>7, ReplaceKept DEF w
<1>8. CASE op = "!"
  BY <1>1, <1>3, <1>4, <1>5, <1>8, ReplaceKept
<1> QED BY <1>6, <1>7, <1>8

LEMMA StoreKept ==
    ASSUME ValuesInv, NEW x \in Variables, NEW t \in ValueTypes, V!Store(x, t) \/ V!BareVarDecl(x, t)
    PROVE  ValuesInv'
<1>1. CASE V!Store(x, t)
  <2> DEFINE v == V!Operand(0) u == [v EXCEPT !.type = t]
  <2>1. V!Depth \in Nat /\ V!Depth > 0 /\ V!Width(t) = V!Width(v.type)
    BY <1>1 DEF V!Store, ValuesInv, V!TypeOK, V!Depth
  <2>2. v \in V!Value /\ Holds(v) /\ v.means \in Int
    BY <2>1, WaitingIs
  <2>3. CASE ~V!InRange(t, v.means)
    BY <1>1, <2>3, LeaveKept DEF V!Store
  <2>4. CASE V!InRange(t, v.means)
    <3>1. held' = [held EXCEPT ![x] = u] /\ words' = <<>> /\ said' = V!NothingSaid
          /\ UNCHANGED gone
      BY <1>1, <2>4 DEF V!Store
    <3>2. u \in V!Value /\ Holds(u)
      BY <2>1, <2>2, <2>4 DEF V!Value, Holds
    <3> HIDE DEF v, u
    <3>3. V!NothingSaid \in [value : V!Value, printed : Int]
      BY NothingIs
    <3>4. V!Depth' = 0 /\ words' \in Seq(V!Value)
      BY <3>1 DEF V!Depth
    <3>5. V!TypeOK'
      BY <3>1, <3>2, <3>3, <3>4, ValueTypesAssumption, WidthsAssumption, ParametersAssumption
      DEF ValuesInv, V!TypeOK
    <3>6. \A y \in Variables : \/ held'[y] = V!Undeclared \/ held'[y] = V!Unset(held'[y].type)
                           \/ Holds(held'[y])
      BY <3>1, <3>2 DEF ValuesInv, V!TypeOK
    <3> QED BY <3>1, <3>4, <3>5, <3>6 DEF ValuesInv, V!SaysInts, V!NothingSaid, V!Undeclared
  <2> QED BY <2>3, <2>4
<1>2. CASE V!BareVarDecl(x, t)
  <2>1. held' = [held EXCEPT ![x] = V!Unset(t)] /\ UNCHANGED <<words, gone>>
        /\ said' = V!NothingSaid
    BY <1>2 DEF V!BareVarDecl
  <2>2. V!Unset(t) \in V!Value /\ V!NothingSaid \in [value : V!Value, printed : Int]
        /\ V!Unset(t) = V!Unset(V!Unset(t).type)
    BY NothingIs DEF V!Unset
  <2>3. V!TypeOK'
    BY <2>1, <2>2 DEF ValuesInv, V!TypeOK, V!Depth
  <2>4. \A y \in Variables : \/ held'[y] = V!Undeclared \/ held'[y] = V!Unset(held'[y].type)
                         \/ Holds(held'[y])
    BY <2>1, <2>2 DEF ValuesInv, V!TypeOK
  <2> QED BY <2>1, <2>3, <2>4 DEF ValuesInv, V!SaysInts, V!NothingSaid, V!Undeclared, V!Depth
<1> QED BY <1>1, <1>2

\* The lower half of an i64 is the int that it is, if there is one.
LEMMA PrintedIs ==
    ASSUME NEW v \in V!Value, Holds(v), v.type # "bool"
    PROVE  /\ V!Signed(V!Wrap(v.bits, W32), W32) \in Int
           /\ V!InRange("i32", v.means) => V!Signed(V!Wrap(v.bits, W32), W32) = v.means
<1> DEFINE p == V!Power[W32] h == V!Power[W32 - 1] q == V!Power[V!Width(v.type)] m == v.means x == v.bits
           c == V!Wrap(x, W32) s == V!Signed(c, W32)
<1>1. V!Width("i32") = W32 /\ V!Width("i64") = W64 /\ V!Width("u32") = W32 /\ "i32" \in ValueTypes
      /\ v.type \in {"i32", "u32", "i64"} /\ v.type \in ValueTypes /\ m \in Int /\ W32 \in Nat \ {0}
  BY ValueTypesAssumption, WidthsAssumption, ParametersAssumption DEF V!Width, V!Value
<1>2. p \in Nat \ {0} /\ h \in Nat \ {0} /\ p = 2 * h /\ (\E k \in Nat \ {0} : V!Power[W64] = p * k)
  BY <1>1, WidthIs
<1>3. q \in Nat /\ x \in 0..(q - 1) /\ Congruent(x, m, q)
  BY <1>1, HoldsBits, WidthIs
<1>4. \E j \in Int : q = p * j
  <2>1. q \in {p, V!Power[W64]}
    BY <1>1
  <2>2. p = p * 1
    BY <1>2
  <2> HIDE DEF p, q
  <2> QED BY <1>2, <2>1, <2>2
<1>5. c \in 0..(p - 1) /\ Congruent(c, x, p)
  <2>1. x \in Int /\ W32 \in Nat
    BY <1>1, <1>3
  <2> QED BY <2>1, WrapIs
<1>6. s \in (-h)..(h - 1) /\ Congruent(s, c, p)
  BY <1>1, <1>5, SignedIs
<1>7. V!InRange("i32", m) => -h <= m /\ m <= h - 1
  BY <1>1, RangeIs DEF V!InRange
<1> HIDE DEF p, h, q, m, x, c, s
<1>8. Congruent(x, m, p)
  BY <1>1, <1>2, <1>3, <1>4, CongruentCoarser
<1>9. Congruent(s, x, p)
  BY <1>2, <1>3, <1>5, <1>6, CongruentOn
<1>10. Congruent(s, m, p)
  BY <1>1, <1>2, <1>3, <1>6, <1>8, <1>9, CongruentOn
<1>11. V!InRange("i32", m) => s = m
  BY <1>1, <1>2, <1>6, <1>7, <1>10, CongruentEqual
<1> QED BY <1>2, <1>6, <1>11 DEF s, c, m, x

LEMMA SayKept == ASSUME ValuesInv, V!Say PROVE ValuesInv'
<1> DEFINE v == V!Operand(0) s == V!Signed(V!Wrap(v.bits, W32), W32)
<1>1. PICK n \in V!Printed(v) : said' = [value |-> v, printed |-> n]
  BY DEF V!Say
<1>2. V!Depth > 0 /\ words' = <<>> /\ UNCHANGED <<held, gone>>
  BY DEF V!Say, ValuesInv, V!TypeOK, V!Depth
<1>3. v \in V!Value /\ Holds(v)
  BY <1>2, WaitingIs
<1>4. n \in Int /\ (v.type # "bool" /\ V!InRange("i32", v.means) => n = v.means)
  <2>1. CASE v.type = "bool"
    <3>1. "i32" \in ValueTypes /\ V!Width("i32") = W32 /\ W32 - 1 \in Nat
      BY ValueTypesAssumption, WidthsAssumption DEF V!Width
    <3>2. V!Low("i32") \in Int /\ V!High("i32") \in Int
      BY <3>1, RangeIs, PowerIs
    <3> QED BY <2>1, <3>2 DEF V!Printed
  <2>2. CASE v.type # "bool"
    <3>1. n = s
      BY <2>2 DEF V!Printed
    <3> QED BY <1>3, <2>2, <3>1, PrintedIs
  <2> QED BY <2>1, <2>2
<1> HIDE DEF v, s
<1>5. said' \in [value : V!Value, printed : Int] /\ said'.value = v /\ said'.printed = n
  BY <1>1, <1>3, <1>4
<1>6. V!Depth' = 0 /\ words' \in Seq(V!Value)
  BY <1>2 DEF V!Depth
<1>7. V!TypeOK'
  BY <1>2, <1>5, <1>6, ValueTypesAssumption, WidthsAssumption, ParametersAssumption
  DEF ValuesInv, V!TypeOK
<1>8. V!SaysInts'
  BY <1>4, <1>5 DEF V!SaysInts
<1> QED BY <1>2, <1>6, <1>7, <1>8 DEF ValuesInv

LEMMA ValuesInit == ASSUME V!Init PROVE ValuesInv
<1>1. V!Undeclared \in V!Value /\ V!NothingSaid \in [value : V!Value, printed : Int]
  BY NothingIs
<1>2. V!Depth = 0 /\ words \in Seq(V!Value)
  BY DEF V!Init, V!Depth
<1>3. held \in [Variables -> V!Value] /\ \A x \in Variables : held[x] = V!Undeclared
  BY <1>1 DEF V!Init
<1>4. said = V!NothingSaid /\ gone \in BOOLEAN
  BY DEF V!Init
<1>5. V!Depth <= MaxValues /\ 1..V!Depth = {}
  BY <1>2, ValueTypesAssumption, WidthsAssumption, ParametersAssumption
<1>6. V!TypeOK
  BY <1>1, <1>2, <1>3, <1>4, <1>5 DEF V!TypeOK
<1> QED BY <1>3, <1>4, <1>5, <1>6 DEF ValuesInv, V!SaysInts, V!NothingSaid, V!Undeclared

LEMMA ValuesStep == ASSUME ValuesInv, [V!Next]_V!vars PROVE ValuesInv'
<1>1. CASE V!Visit
  BY <1>1, LiteralKept, IdentifierKept, ArgumentKept, BinaryKept, UnaryKept, StoreKept, SayKept
  DEF V!Visit
<1>2. CASE UNCHANGED V!vars
  BY <1>2 DEF V!vars, ValuesInv, V!TypeOK, V!SaysInts, V!Depth
<1> QED BY <1>1, <1>2 DEF V!Next, V!Stopped

LEMMA BodiesStep == ASSUME ValuesInv, [OfTypes \/ OfValues]_<<vars, computed>> PROVE ValuesInv'
<1>1. [V!Next]_V!vars
  BY DEF OfTypes, OfValues, computed, V!vars
<1> QED BY <1>1, ValuesStep

\* What is proved of types holds where the two are put together.
LEMMA ComputingIsTypes == Computing => Spec
<1>1. [OfTypes \/ OfValues]_<<vars, computed>> => [Next]_vars
  BY DEF OfTypes, OfValues
<1>2. Start => Init
  BY DEF Start
<1> QED BY <1>1, <1>2, PTL DEF Computing, Spec

\* What integers and bools hold is what the program means, for words of any
\* width (CodeGenerator.cpp:237-511).
THEOREM IntegersExactHolds == Computing => []IntegersExact
<1>1. Start => ValuesInv
  BY ValuesInit DEF Start
<1>2. ValuesInv /\ [OfTypes \/ OfValues]_<<vars, computed>> => ValuesInv'
  BY BodiesStep
<1>3. ValuesInv => IntegersExact
  <2> SUFFICES ASSUME ValuesInv PROVE V!IntegersExact
    BY DEF IntegersExact
  <2>1. \A i \in 1..V!Depth : words[i] \in V!Value /\ Holds(words[i])
    BY DEF ValuesInv, V!TypeOK, V!Depth
  <2>2. \A i \in 1..V!Depth : V!Exact(words[i])
    BY <2>1, HoldsExact
  <2> QED BY <2>2 DEF V!IntegersExact, V!SignedExact, V!UnsignedExact, ValuesInv
<1> QED BY <1>1, <1>2, <1>3, PTL DEF Computing

\* say prints the integer that it is given, if an int can hold it
\* (CodeGenerator.cpp:676-679).
THEOREM SaysIntsHolds == Computing => []SaysInts
<1>1. Start => ValuesInv
  BY ValuesInit DEF Start
<1>2. ValuesInv /\ [OfTypes \/ OfValues]_<<vars, computed>> => ValuesInv'
  BY BodiesStep
<1>3. ValuesInv => SaysInts
  BY DEF ValuesInv, SaysInts
<1> QED BY <1>1, <1>2, <1>3, PTL DEF Computing
=============================================================================
