---------------------------- MODULE ScopesProofs -----------------------------
(***************************************************************************)
(* For any number of names, declarations and nested scopes: the generator's *)
(* flat maps mean what the analyzer's scopes mean, as far as the            *)
(* properties of Scopes say.                                                *)
(***************************************************************************)
EXTENDS Scopes, WellFoundedInduction, TLAPS

-----------------------------------------------------------------------------
(* The inductive invariant *)

\* The scopes are the program's, a function's, and blocks in it.
ScopesBuilt ==
    /\ scopes[1].opens = "program"
    /\ \A i \in 2..Depth : scopes[i].opens = IF i = 2 THEN "func" ELSE "block"
    /\ currentFunction = 0 => Depth = 1

\* Only the program scope has functions.
LocalsAreVariables ==
    \A i \in 2..Depth : \A n \in Names : scopes[i].symbols[n].kind \in {"none", "variable"}

\* A block of a plain program takes no name of the program.
BlocksShadowNothing ==
    \A i \in 3..Depth : \A n \in Names :
        scopes[i].symbols[n] # None => scopes[1].symbols[n] = None

\* A name that the program scope does not have is free in the module, so that
\* the function that is declared with it goes by it.
ModuleAgrees ==
    \A n \in Names :
        /\ scopes[1].symbols[n].kind \in {"function", "library"} =>
              functions[n] = scopes[1].symbols[n] /\ n \notin HiddenNames
        /\ scopes[1].symbols[n] = None => functions[n] = None \/ n \in HiddenNames
        /\ globalValues[n] # None => scopes[1].symbols[n] # None
        /\ imported /\ n \in LibraryNames => scopes[1].symbols[n] # None

VariablesAgree ==
    \A n \in Names :
        scopes[1].symbols[n].kind = "variable" => globalValues[n] = scopes[1].symbols[n]

\* The flat map has locals of the current function only.
OwnersSound ==
    \A n \in Names : namedValues[n].owner \in {0, currentFunction} /\ globalValues[n].owner = 0

\* No function of the program has, or may have, a name that only the generator declares.
NoHidden == plain \/ "hiddenFunc" \notin Shapes

IInv ==
    /\ TypeOK
    /\ ScopesBuilt
    /\ LocalsAreVariables
    /\ plain => LocalsAgree /\ BlocksShadowNothing /\ VariablesAgree
    /\ NoHidden => ModuleAgrees /\ UsesAgree
    /\ OwnersSound

-----------------------------------------------------------------------------
(* Scopes, name by name *)

LEMMA NoneIs ==
    /\ None \in Symbol /\ None.kind = "none" /\ None.owner = 0
    /\ Library \in Symbol /\ Library.kind = "library" /\ Library.owner = 0
    /\ Nothing \in [Names -> Symbol] /\ \A n \in Names : Nothing[n] = None
<1>1. None \in Symbol /\ None.kind = "none" /\ None.owner = 0
  BY BoundsAssumption DEF None, Symbol
<1>2. Library \in Symbol /\ Library.kind = "library" /\ Library.owner = 0
  BY <1>1 DEF Library, Symbol
<1>3. QED
  BY <1>1, <1>2 DEF Nothing

LEMMA ScopeAt ==
    ASSUME TypeOK, NEW i \in 1..Depth
    PROVE  /\ scopes[i] \in Scope
           /\ \A n \in Names : scopes[i].symbols[n] \in Symbol
<1>1. scopes[i] \in Scope
  BY DEF TypeOK, Depth
<1>2. QED
  BY <1>1 DEF Scope

LEMMA DepthIs == ASSUME TypeOK PROVE Depth \in Nat /\ Depth >= 1 /\ Depth <= MaxScopes
BY BoundsAssumption DEF TypeOK

\* A construct is usual, or of a shape that is explored.
LEMMA UsualIs ==
    ASSUME plain \in BOOLEAN, NEW usual \in BOOLEAN, NEW shape, Usual(usual, shape)
    PROVE  /\ plain' \in BOOLEAN
           /\ plain' => plain /\ usual
           /\ usual \/ shape \in Shapes
BY Zenon DEF Usual

LEMMA DeclaredIs ==
    ASSUME TypeOK, NEW n \in Names, NEW sym \in Symbol
    PROVE  /\ Declared(n, sym) \in Seq(Scope) /\ Len(Declared(n, sym)) = Depth
           /\ \A i \in 1..Depth : Declared(n, sym)[i].opens = scopes[i].opens
           /\ \A i \in 1..Depth : \A m \in Names :
                 Declared(n, sym)[i].symbols[m] =
                     IF i = Depth /\ m = n THEN sym ELSE scopes[i].symbols[m]
<1> DEFINE top == scopes[Depth]
           new == [top EXCEPT !.symbols[n] = sym]
<1>1. Depth \in 1..Depth /\ scopes \in Seq(Scope)
  BY DepthIs DEF TypeOK
<1>2. top \in Scope
  BY <1>1, ScopeAt
<1>3. new \in Scope /\ new.opens = top.opens
      /\ \A m \in Names : new.symbols[m] = IF m = n THEN sym ELSE top.symbols[m]
  BY <1>2 DEF Scope
<1>4. Declared(n, sym) = [scopes EXCEPT ![Depth] = new]
  BY DEF Declared
<1> HIDE DEF new
<1>5. Declared(n, sym) \in Seq(Scope) /\ Len(Declared(n, sym)) = Depth
      /\ \A i \in 1..Depth : Declared(n, sym)[i] = IF i = Depth THEN new ELSE scopes[i]
  BY <1>1, <1>3, <1>4 DEF Depth
<1>6. QED
  BY <1>3, <1>5

LEMMA PushedIs ==
    ASSUME NEW s \in Seq(Scope), NEW scope \in Scope, NEW d \in Nat, Len(s) = d
    PROVE  /\ Append(s, scope) \in Seq(Scope) /\ Len(Append(s, scope)) = d + 1
           /\ \A i \in 1..d : Append(s, scope)[i] = s[i]
           /\ Append(s, scope)[d + 1] = scope
OBVIOUS

LEMMA PushedOnOne ==
    ASSUME NEW s \in Seq(Scope), NEW scope \in Scope, Len(s) = 1
    PROVE  /\ Append(s, scope) \in Seq(Scope) /\ Len(Append(s, scope)) = 2
           /\ Append(s, scope)[1] = s[1] /\ Append(s, scope)[2] = scope
<1> DEFINE pushed == Append(s, scope)
<1>1. ASSUME NEW d \in Nat, d = 1
      PROVE  /\ pushed \in Seq(Scope) /\ Len(pushed) = d + 1
             /\ \A i \in 1..d : pushed[i] = s[i]
             /\ pushed[d + 1] = scope
  <2>1. Len(s) = d
    BY <1>1
  <2>2. QED
    BY <1>1, <2>1, PushedIs, Zenon
<1> HIDE DEF pushed
<1>2. PICK d \in Nat : d = 1
  OBVIOUS
<1>3. 1 \in 1..d /\ d + 1 = 2
  BY <1>2
<1>4. QED
  BY <1>1, <1>2, <1>3 DEF pushed

LEMMA PoppedIs ==
    ASSUME NEW s \in Seq(Scope), NEW d \in Nat, Len(s) = d, d > 1
    PROVE  /\ SubSeq(s, 1, d - 1) \in Seq(Scope) /\ Len(SubSeq(s, 1, d - 1)) = d - 1
           /\ \A i \in 1..(d - 1) : SubSeq(s, 1, d - 1)[i] = s[i]
OBVIOUS

-----------------------------------------------------------------------------
(* Lookup *)

Less == {p \in Nat \X Nat : p[1] < p[2]}

LEMMA LeastNumber ==
    ASSUME NEW S \in SUBSET Nat, S # {}
    PROVE  \E n \in S : \A m \in S : n <= m
<1>1. IsWellFoundedOn(Less, Nat)
  BY NatLessThanWellFounded DEF OpToRel, Less
<1>2. PICK n \in S : \A m \in S : ~ (<<m, n>> \in Less)
  BY <1>1, WFMin
<1>3. ASSUME NEW m \in S PROVE n <= m
  <2>1. <<m, n>> \in Nat \X Nat /\ ~ (<<m, n>> \in {p \in Nat \X Nat : p[1] < p[2]})
    BY <1>2 DEF Less
  <2>2. ~ (m < n)
    BY <2>1
  <2>3. QED
    BY <2>2
<1>4. QED
  BY <1>3

\* A lookup finds the innermost scope that has the name.
LEMMA LookupIs ==
    ASSUME TypeOK, NEW n \in Names, Visible(n)
    PROVE  \E i \in 1..Depth :
               /\ Lookup(n) = scopes[i].symbols[n] /\ Lookup(n) # None
               /\ \A j \in (i + 1)..Depth : scopes[j].symbols[n] = None
<1> DEFINE Found(i) == /\ scopes[i].symbols[n] # None
                       /\ \A j \in (i + 1)..Depth : scopes[j].symbols[n] = None
<1>1. \E i \in 1..Depth : Found(i)
  <2> DEFINE D == {k \in 0..(Depth - 1) : scopes[Depth - k].symbols[n] # None}
  <2>1. Depth \in Nat /\ D \in SUBSET Nat
    BY DepthIs
  <2>2. D # {}
    <3>1. PICK i \in 1..Depth : scopes[i].symbols[n] # None
      BY DEF Visible
    <3>2. Depth - i \in 0..(Depth - 1) /\ Depth - (Depth - i) = i
      BY <2>1
    <3>3. Depth - i \in D
      BY <3>1, <3>2
    <3>4. QED
      BY <3>3
  <2> HIDE DEF D
  <2>3. PICK k \in D : \A m \in D : k <= m
    BY <2>1, <2>2, LeastNumber
  <2>4. k \in 0..(Depth - 1) /\ scopes[Depth - k].symbols[n] # None
    BY DEF D
  <2>5. ASSUME NEW j \in (Depth - k + 1)..Depth, scopes[j].symbols[n] # None PROVE FALSE
    <3>1. Depth - j \in 0..(Depth - 1) /\ Depth - (Depth - j) = j /\ Depth - j < k
      BY <2>1, <2>4
    <3>2. Depth - j \in D
      BY <2>5, <3>1 DEF D
    <3>3. QED
      BY <2>1, <2>3, <2>4, <3>1, <3>2
  <2>6. Depth - k \in 1..Depth /\ Found(Depth - k)
    BY <2>1, <2>4, <2>5
  <2>7. QED
    BY <2>6
<1>2. QED
  BY <1>1 DEF Lookup

LEMMA LookupType == ASSUME TypeOK, NEW n \in Names PROVE Lookup(n) \in Symbol
<1>1. CASE Visible(n)
  BY <1>1, LookupIs, ScopeAt
<1>2. CASE ~Visible(n)
  BY <1>2, NoneIs DEF Lookup
<1>3. QED
  BY <1>1, <1>2

-----------------------------------------------------------------------------
(* The initial state, and each step *)

LEMMA InitInv == Init => IInv
<1> SUFFICES ASSUME Init PROVE IInv
  OBVIOUS
<1> USE DEF Init
<1>1. /\ scopes \in Seq(Scope) /\ Depth = 1 /\ scopes[1].opens = "program"
      /\ \A n \in Names : scopes[1].symbols[n] = None
  BY NoneIs DEF Scope, Depth
<1>2. /\ \A n \in Names : namedValues[n] = None /\ globalValues[n] = None
      /\ \A n \in Names : functions[n] = IF n \in HiddenNames THEN Library ELSE None
      /\ namedValues \in [Names -> Symbol] /\ globalValues \in [Names -> Symbol]
      /\ functions \in [Names -> Symbol]
  BY NoneIs
<1>3. use \in Use /\ use.gen = use.sema
  BY NoneIs DEF Use
<1>4. TypeOK
  <2>1. Depth \in 1..MaxScopes /\ declared \in 0..MaxDecls /\ currentFunction \in 0..MaxDecls
    BY <1>1, BoundsAssumption
  <2>2. imported \in BOOLEAN /\ unknown \in BOOLEAN /\ plain \in BOOLEAN
    OBVIOUS
  <2>3. QED
    BY <1>1, <1>2, <1>3, <2>1, <2>2 DEF TypeOK
<1>5. ScopesBuilt /\ LocalsAreVariables /\ BlocksShadowNothing /\ LocalsAgree
  BY <1>1 DEF ScopesBuilt, LocalsAreVariables, BlocksShadowNothing, LocalsAgree, AtTopLevel
<1>6. VariablesAgree /\ ModuleAgrees /\ UsesAgree /\ OwnersSound
  BY <1>1, <1>2, <1>3, NoneIs DEF VariablesAgree, ModuleAgrees, UsesAgree, OwnersSound
<1>7. QED
  BY <1>4, <1>5, <1>6 DEF IInv

LEMMA DeclareVarInv ==
    ASSUME IInv, NEW n \in Names, NEW const \in BOOLEAN, DeclareVar(n, const)
    PROVE  IInv'
<1> DEFINE sym == [kind |-> "variable", id |-> declared + 1, const |-> const,
                   owner |-> IF AtTopLevel THEN 0 ELSE currentFunction]
<1>1. /\ TypeOK /\ ScopesBuilt /\ plain \in BOOLEAN /\ Depth \in Nat /\ Depth >= 1
      /\ scopes' = Declared(n, sym) /\ declared < MaxDecls
      /\ scopes[Depth].symbols[n] = None
      /\ UNCHANGED <<functions, imported, currentFunction, unknown, use>>
  BY DepthIs DEF IInv, TypeOK, DeclareVar, Taken, Innermost
<1>2. /\ plain' \in BOOLEAN /\ (plain' => plain)
      /\ plain' /\ Depth = 1 => currentFunction = 0
      /\ plain' /\ Depth # 1 => scopes[Depth].opens = "func" \/ ~Visible(n)
  <2>1. CASE AtTopLevel
    <3>1. Usual(currentFunction = 0, "lateGlobal")
      BY <2>1 DEF DeclareVar
    <3>2. QED
      BY <1>1, <2>1, <3>1, UsualIs DEF AtTopLevel
  <2>2. CASE ~AtTopLevel
    <3>1. Usual(Innermost.opens = "func" \/ ~Visible(n), "blockShadow")
      BY <2>2 DEF DeclareVar
    <3>2. QED
      BY <1>1, <2>2, <3>1, UsualIs DEF AtTopLevel, Innermost
  <2>3. QED
    BY <2>1, <2>2
<1>3. /\ sym \in Symbol /\ sym # None /\ sym.kind = "variable"
      /\ sym.owner \in {0, currentFunction} /\ (Depth = 1 => sym.owner = 0)
  <2>1. currentFunction \in 0..MaxDecls /\ declared + 1 \in 0..MaxDecls /\ 0 \in 0..MaxDecls
    BY <1>1, BoundsAssumption DEF TypeOK
  <2>2. QED
    BY <2>1, NoneIs DEF Symbol, AtTopLevel
<1>4. currentFunction = 0 => Depth = 1
  BY <1>1 DEF ScopesBuilt
<1>5. /\ namedValues' \in [Names -> Symbol] /\ globalValues' \in [Names -> Symbol]
      /\ \A m \in Names :
            /\ namedValues'[m] = IF currentFunction # 0 /\ m = n THEN sym ELSE namedValues[m]
            /\ globalValues'[m] = IF currentFunction = 0 /\ m = n THEN sym ELSE globalValues[m]
  BY <1>1, <1>3 DEF DeclareVar, TypeOK
<1> HIDE DEF sym
<1>6. /\ scopes' \in Seq(Scope) /\ Depth' = Depth
      /\ \A i \in 1..Depth : scopes'[i].opens = scopes[i].opens
      /\ \A i \in 1..Depth : \A m \in Names :
            scopes'[i].symbols[m] = IF i = Depth /\ m = n THEN sym ELSE scopes[i].symbols[m]
  BY <1>1, <1>3, DeclaredIs DEF Depth
<1>7. TypeOK'
  <2>1. declared' \in 0..MaxDecls
    BY <1>1, BoundsAssumption DEF TypeOK, DeclareVar
  <2>2. QED
    BY <1>1, <1>2, <1>5, <1>6, <2>1 DEF TypeOK
<1>8. ScopesBuilt'
  BY <1>1, <1>6 DEF ScopesBuilt
<1>9. LocalsAreVariables'
  BY <1>1, <1>3, <1>6 DEF IInv, LocalsAreVariables
<1>10. OwnersSound'
  BY <1>1, <1>3, <1>4, <1>5 DEF IInv, OwnersSound
<1>11. ASSUME plain' PROVE VariablesAgree' /\ BlocksShadowNothing' /\ LocalsAgree'
  <2>1. plain /\ VariablesAgree /\ BlocksShadowNothing /\ LocalsAgree
    BY <1>2, <1>11 DEF IInv
  <2>2. 1 \in 1..Depth
    BY <1>1
  <2>3. CASE Depth = 1
    <3>1. currentFunction = 0
      BY <1>2, <1>11, <2>3
    <3>2. VariablesAgree'
      BY <1>5, <1>6, <2>1, <2>2, <2>3, <3>1 DEF VariablesAgree
    <3>3. BlocksShadowNothing' /\ LocalsAgree'
      BY <1>6, <2>3 DEF BlocksShadowNothing, LocalsAgree, AtTopLevel
    <3>4. QED
      BY <3>2, <3>3
  <2>4. CASE Depth # 1
    <3>1. /\ Depth > 1 /\ currentFunction # 0
          /\ scopes[Depth].opens = "func" \/ ~Visible(n)
      <4>1. scopes[Depth].opens = "func" \/ ~Visible(n)
        BY <1>2, <1>11, <2>4
      <4>2. Depth \in Nat /\ Depth >= 1
        BY <1>1
      <4>3. Depth > 1
        BY <2>4, <4>2
      <4>4. QED
        BY <1>4, <2>4, <4>1, <4>3
    <3>2. \A i \in 1..(Depth - 1) : i \in 1..Depth /\ \A m \in Names : scopes'[i].symbols[m] = scopes[i].symbols[m]
      BY <1>1, <1>6
    <3>3. \A m \in Names : m # n => namedValues'[m] = namedValues[m]
                           /\ \A i \in 1..Depth : scopes'[i].symbols[m] = scopes[i].symbols[m]
      BY <1>5, <1>6
    <3>4. \A m \in Names : scopes'[1].symbols[m] = scopes[1].symbols[m]
      BY <1>1, <3>1, <3>2
    <3>5. VariablesAgree'
      BY <1>5, <2>1, <3>1, <3>4 DEF VariablesAgree
    <3>6. \A i \in 2..(Depth - 1) : scopes[i].symbols[n] = None
      <4>1. CASE ~Visible(n)
        BY <1>1, <4>1 DEF Visible
      <4>2. CASE scopes[Depth].opens = "func"
        <5>1. Depth \in 2..Depth
          BY <1>1, <3>1
        <5>2. Depth = 2
          BY <1>1, <4>2, <5>1 DEF ScopesBuilt
        <5>3. QED
          BY <5>2
      <4>3. QED
        BY <3>1, <4>1, <4>2
    <3>7. Depth > 2 => scopes[1].symbols[n] = None
      <4> SUFFICES ASSUME Depth > 2 PROVE scopes[1].symbols[n] = None
        OBVIOUS
      <4>1. scopes[Depth].opens # "func"
        BY <1>1 DEF ScopesBuilt
      <4>2. QED
        BY <2>2, <3>1, <4>1 DEF Visible
    <3>8. BlocksShadowNothing'
      <4> SUFFICES ASSUME NEW i \in 3..Depth, NEW m \in Names, scopes'[i].symbols[m] # None
                   PROVE  scopes[1].symbols[m] = None
        BY <1>6, <3>4 DEF BlocksShadowNothing
      <4>1. CASE m = n
        BY <1>1, <3>7, <4>1
      <4>2. CASE m # n
        BY <1>6, <2>1, <4>2 DEF BlocksShadowNothing
      <4>3. QED
        BY <4>1, <4>2
    <3>9. ~AtTopLevel
      BY <2>4 DEF AtTopLevel
    <3>10. ASSUME NEW m \in Names
           PROVE  /\ \A i, j \in 2..Depth :
                        scopes'[i].symbols[m] # None /\ scopes'[j].symbols[m] # None => i = j
                  /\ \A i \in 2..Depth :
                        scopes'[i].symbols[m] # None => namedValues'[m] = scopes'[i].symbols[m]
                  /\ (\A i \in 2..Depth : scopes'[i].symbols[m] = None) /\ scopes'[1].symbols[m] # None
                        => namedValues'[m] = None
      <4>1. CASE m = n
        <5>1. \A i \in 2..Depth : scopes'[i].symbols[n] = IF i = Depth THEN sym ELSE None
          BY <1>1, <1>6, <3>1, <3>2, <3>6
        <5>2. namedValues'[n] = sym
          BY <1>5, <3>1
        <5>3. Depth \in 2..Depth
          BY <1>1, <3>1
        <5>4. QED
          BY <1>3, <4>1, <5>1, <5>2, <5>3
      <4>2. CASE m # n
        <5>1. /\ \A i, j \in 2..Depth :
                    scopes[i].symbols[m] # None /\ scopes[j].symbols[m] # None => i = j
              /\ \A i \in 2..Depth :
                    scopes[i].symbols[m] # None => namedValues[m] = scopes[i].symbols[m]
              /\ (\A i \in 2..Depth : scopes[i].symbols[m] = None) /\ scopes[1].symbols[m] # None
                    => namedValues[m] = None
          BY <2>1, <3>9 DEF LocalsAgree, IsGlobal
        <5>2. namedValues'[m] = namedValues[m] /\ scopes'[1].symbols[m] = scopes[1].symbols[m]
              /\ \A i \in 2..Depth : scopes'[i].symbols[m] = scopes[i].symbols[m]
          BY <3>3, <3>4, <4>2
        <5>3. QED
          BY <5>1, <5>2
      <4>3. QED
        BY <4>1, <4>2
    <3>11. LocalsAgree'
      BY <1>6, <3>10 DEF LocalsAgree, IsGlobal
    <3>12. QED
      BY <3>5, <3>8, <3>11
  <2>5. QED
    BY <2>3, <2>4
<1>12. ASSUME NoHidden' PROVE ModuleAgrees' /\ UsesAgree'
  <2>1. ModuleAgrees /\ UsesAgree
    BY <1>2, <1>12 DEF IInv, NoHidden
  <2>2. UsesAgree'
    BY <1>1, <1>2, <2>1 DEF UsesAgree
  <2>3. \A m \in Names : scopes'[1].symbols[m] =
            IF Depth = 1 /\ m = n THEN sym ELSE scopes[1].symbols[m]
    BY <1>1, <1>6
  <2>4. ModuleAgrees'
    BY <1>1, <1>3, <1>4, <1>5, <2>1, <2>3 DEF ModuleAgrees
  <2>5. QED
    BY <2>2, <2>4
<1>13. QED
  BY <1>7, <1>8, <1>9, <1>10, <1>11, <1>12 DEF IInv

LEMMA BeginFuncInv ==
    ASSUME IInv, NEW n \in Names, NEW params \in SUBSET Names, BeginFunc(n, params)
    PROVE  IInv'
<1> DEFINE f == declared + 1
           sym == [kind |-> "function", id |-> f, const |-> FALSE, owner |-> 0]
           local == [kind |-> "variable", id |-> f, const |-> FALSE, owner |-> f]
           locals == [m \in Names |-> IF m \in params THEN local ELSE None]
           scope == [opens |-> "func", symbols |-> locals]
<1>1. /\ TypeOK /\ ScopesBuilt /\ plain \in BOOLEAN /\ Depth = 1 /\ MaxScopes > 1
      /\ declared < MaxDecls /\ scopes[1].symbols[n] = None
      /\ scopes' = Append(Declared(n, sym), scope)
      /\ functions' = Created(n, sym) /\ namedValues' = locals
      /\ currentFunction' = f /\ declared' = f
      /\ UNCHANGED <<globalValues, imported, unknown, use>>
  BY DEF IInv, TypeOK, BeginFunc, Taken, Innermost, AtTopLevel, LocalsOf
<1>2. /\ plain' \in BOOLEAN /\ (plain' => plain /\ n \notin HiddenNames)
      /\ n \in HiddenNames => "hiddenFunc" \in Shapes
  BY <1>1, UsualIs DEF BeginFunc
<1>3. f \in 0..MaxDecls /\ f # 0
  BY <1>1, BoundsAssumption DEF TypeOK
<1>4. sym \in Symbol /\ sym.kind = "function" /\ sym # None
  BY <1>3, BoundsAssumption, NoneIs DEF Symbol
<1>5. local \in Symbol /\ local.kind = "variable" /\ local.owner = f
  BY <1>3 DEF Symbol
<1> HIDE DEF sym, local, f
<1>6. /\ scope \in Scope /\ scope.opens = "func" /\ scope.symbols = locals
      /\ locals \in [Names -> Symbol]
      /\ \A m \in Names : locals[m] = IF m \in params THEN local ELSE None
  BY <1>5, NoneIs DEF Scope
<1> HIDE DEF locals, scope
<1>7. /\ scopes' \in Seq(Scope) /\ Depth' = 2
      /\ scopes'[1].opens = scopes[1].opens
      /\ \A m \in Names : scopes'[1].symbols[m] = IF m = n THEN sym ELSE scopes[1].symbols[m]
      /\ scopes'[2] = scope
  <2>1. /\ Declared(n, sym) \in Seq(Scope) /\ Len(Declared(n, sym)) = 1 /\ 1 \in 1..1
        /\ Declared(n, sym)[1].opens = scopes[1].opens
        /\ \A m \in Names : Declared(n, sym)[1].symbols[m] = IF m = n THEN sym ELSE scopes[1].symbols[m]
    BY <1>1, <1>4, DeclaredIs
  <2> DEFINE s == Declared(n, sym)
  <2> HIDE DEF s
  <2>2. Append(s, scope) \in Seq(Scope) /\ Len(Append(s, scope)) = 2
        /\ Append(s, scope)[1] = s[1] /\ Append(s, scope)[2] = scope
    <3>1. s \in Seq(Scope) /\ Len(s) = 1
      BY <2>1 DEF s
    <3>2. QED
      BY <1>6, <3>1, PushedOnOne
  <2>3. scopes' = Append(s, scope)
    BY <1>1 DEF s
  <2>4. QED
    BY <2>1, <2>2, <2>3 DEF s, Depth
<1>8. functions' \in [Names -> Symbol] /\ \A m \in Names \ {n} : functions'[m] = functions[m]
  BY <1>1, <1>4 DEF Created, TypeOK
<1>9. TypeOK'
  <2>1. Depth' \in 1..MaxScopes
    BY <1>1, <1>7, BoundsAssumption
  <2>2. QED
    BY <1>1, <1>2, <1>3, <1>6, <1>7, <1>8, <2>1 DEF TypeOK
<1>10. ScopesBuilt'
  <2>1. \A i \in 2..2 : i = 2
    OBVIOUS
  <2>2. QED
    BY <1>1, <1>3, <1>6, <1>7, <2>1 DEF ScopesBuilt
<1>11. LocalsAreVariables'
  <2>1. \A i \in 2..2 : scopes'[i] = scope
    BY <1>7
  <2>2. \A m \in Names : scope.symbols[m].kind \in {"none", "variable"}
    BY <1>5, <1>6, NoneIs
  <2>3. QED
    BY <1>7, <2>1, <2>2 DEF LocalsAreVariables
<1>12. OwnersSound'
  BY <1>1, <1>5, <1>6, NoneIs DEF IInv, OwnersSound
<1>13. ASSUME plain' PROVE VariablesAgree' /\ BlocksShadowNothing' /\ LocalsAgree'
  <2>1. plain /\ VariablesAgree
    BY <1>2, <1>13 DEF IInv
  <2>2. VariablesAgree'
    BY <1>1, <1>4, <1>7, <2>1 DEF VariablesAgree
  <2>3. \A i \in 2..2 : i = 2
    OBVIOUS
  <2>4. LocalsAgree'
    <3>1. \A m \in Names : namedValues'[m] = scopes'[2].symbols[m]
      BY <1>1, <1>6, <1>7
    <3>2. 2 \in 2..2
      OBVIOUS
    <3>3. QED
      BY <1>7, <2>3, <3>1, <3>2 DEF LocalsAgree, IsGlobal
  <2>5. BlocksShadowNothing'
    <3>1. 3..2 = {}
      OBVIOUS
    <3>2. QED
      BY <1>7, <3>1 DEF BlocksShadowNothing
  <2>6. QED
    BY <2>2, <2>4, <2>5
<1>14. ASSUME NoHidden' PROVE ModuleAgrees' /\ UsesAgree'
  <2>1. ModuleAgrees /\ UsesAgree /\ n \notin HiddenNames
    BY <1>2, <1>14 DEF IInv, NoHidden
  <2>2. UsesAgree'
    BY <1>1, <1>2, <2>1 DEF UsesAgree
  <2>3. functions[n] = None /\ globalValues[n] = None
    BY <1>1, <2>1 DEF ModuleAgrees
  <2>4. functions'[n] = sym
    BY <1>1, <2>3 DEF Created, TypeOK
  <2>5. ModuleAgrees'
    BY <1>1, <1>4, <1>7, <1>8, <2>1, <2>4 DEF ModuleAgrees
  <2>6. QED
    BY <2>2, <2>5
<1>15. QED
  BY <1>9, <1>10, <1>11, <1>12, <1>13, <1>14 DEF IInv

\* The innermost scope is left.
LEMMA LeaveInv ==
    ASSUME IInv, EndFunc \/ EndBlock
    PROVE  IInv'
<1>1. /\ TypeOK /\ ScopesBuilt /\ Depth \in Nat /\ Depth >= 1 /\ Depth <= MaxScopes
  BY DepthIs DEF IInv
<1>2. Depth > 1
  BY <1>1 DEF ScopesBuilt, EndFunc, EndBlock, Innermost
<1>3. scopes' = SubSeq(scopes, 1, Depth - 1)
  BY DEF EndFunc, EndBlock
<1>4. /\ scopes' \in Seq(Scope) /\ Depth' = Depth - 1
      /\ \A i \in 1..(Depth - 1) : scopes'[i] = scopes[i] /\ i \in 1..Depth
      /\ scopes'[1] = scopes[1]
  <2>1. scopes \in Seq(Scope)
    BY <1>1 DEF TypeOK
  <2>2. /\ SubSeq(scopes, 1, Depth - 1) \in Seq(Scope) /\ Len(SubSeq(scopes, 1, Depth - 1)) = Depth - 1
        /\ \A i \in 1..(Depth - 1) : SubSeq(scopes, 1, Depth - 1)[i] = scopes[i]
    <3>1. Len(scopes) = Depth
      BY DEF Depth
    <3>2. QED
      BY <1>1, <1>2, <2>1, <3>1, PoppedIs
  <2>3. Depth' = Len(scopes')
    BY DEF Depth
  <2>4. 1 \in 1..(Depth - 1) /\ \A i \in 1..(Depth - 1) : i \in 1..Depth
    BY <1>1, <1>2
  <2>5. QED
    BY <1>3, <2>2, <2>3, <2>4
<1>5. /\ declared' = declared /\ namedValues' = namedValues /\ globalValues' = globalValues
      /\ functions' = functions /\ imported' = imported /\ currentFunction' = currentFunction
      /\ unknown' = unknown /\ use' = use /\ plain' = plain
  BY DEF EndFunc, EndBlock, generatorState
<1>6. TypeOK'
  <2>1. Depth' \in 1..MaxScopes
    BY <1>1, <1>2, <1>4, BoundsAssumption
  <2>2. QED
    BY <1>1, <1>4, <1>5, <2>1 DEF TypeOK
<1>7. ScopesBuilt'
  <2>1. Depth' = Depth - 1 /\ \A i \in 2..(Depth - 1) : scopes'[i] = scopes[i] /\ i \in 2..Depth
    BY <1>1, <1>4
  <2>2. currentFunction # 0
    BY <1>1, <1>2 DEF ScopesBuilt
  <2>3. scopes'[1].opens = "program" /\ \A i \in 2..Depth : scopes[i].opens = IF i = 2 THEN "func" ELSE "block"
    BY <1>1, <1>4 DEF ScopesBuilt
  <2>4. QED
    BY <1>5, <2>1, <2>2, <2>3 DEF ScopesBuilt
<1>8. LocalsAreVariables'
  <2>1. Depth' = Depth - 1 /\ \A i \in 2..(Depth - 1) : scopes'[i] = scopes[i] /\ i \in 2..Depth
    BY <1>1, <1>4
  <2>2. QED
    BY <2>1 DEF IInv, LocalsAreVariables
<1>9. OwnersSound' /\ (VariablesAgree => VariablesAgree') /\ (ModuleAgrees => ModuleAgrees')
      /\ (UsesAgree => UsesAgree') /\ (NoHidden' => NoHidden)
  BY <1>4, <1>5 DEF IInv, OwnersSound, VariablesAgree, ModuleAgrees, UsesAgree, NoHidden
<1>10. ASSUME plain PROVE BlocksShadowNothing' /\ LocalsAgree'
  <2>1. BlocksShadowNothing /\ LocalsAgree
    BY <1>10 DEF IInv
  <2>2. BlocksShadowNothing'
    <3>1. \A i \in 3..(Depth - 1) : scopes'[i] = scopes[i] /\ i \in 3..Depth
      BY <1>1, <1>4
    <3>2. QED
      BY <1>4, <2>1, <3>1 DEF BlocksShadowNothing
  <2>3. CASE Depth = 2
    BY <1>4, <2>2, <2>3 DEF LocalsAgree, AtTopLevel
  <2>4. CASE Depth # 2
    <3>1. Depth > 2 /\ ~AtTopLevel /\ Depth \in 3..Depth
      <4>1. Depth > 2
        BY <1>1, <1>2, <2>4
      <4>2. QED
        BY <1>1, <4>1 DEF AtTopLevel
    <3>2. \A i \in 2..(Depth - 1) : scopes'[i] = scopes[i] /\ i \in 2..Depth
      BY <1>1, <1>4
    <3>3. \A i \in 2..Depth : i = Depth \/ i \in 2..(Depth - 1)
      BY <1>1
    <3>4. ASSUME NEW m \in Names
          PROVE  /\ \A i, j \in 2..(Depth - 1) :
                       scopes'[i].symbols[m] # None /\ scopes'[j].symbols[m] # None => i = j
                 /\ \A i \in 2..(Depth - 1) :
                       scopes'[i].symbols[m] # None => namedValues'[m] = scopes'[i].symbols[m]
                 /\ (\A i \in 2..(Depth - 1) : scopes'[i].symbols[m] = None) /\ scopes'[1].symbols[m] # None
                       => namedValues'[m] = None
      <4>1. /\ \A i, j \in 2..Depth :
                  scopes[i].symbols[m] # None /\ scopes[j].symbols[m] # None => i = j
            /\ \A i \in 2..Depth :
                  scopes[i].symbols[m] # None => namedValues[m] = scopes[i].symbols[m]
            /\ (\A i \in 2..Depth : scopes[i].symbols[m] = None) /\ scopes[1].symbols[m] # None
                  => namedValues[m] = None
        BY <2>1, <3>1 DEF LocalsAgree, IsGlobal
      <4>2. scopes[Depth].symbols[m] # None => scopes[1].symbols[m] = None
        BY <2>1, <3>1 DEF BlocksShadowNothing
      <4>3. QED
        BY <1>4, <1>5, <3>2, <3>3, <4>1, <4>2
    <3>5. QED
      BY <1>4, <2>2, <3>4 DEF LocalsAgree, IsGlobal
  <2>5. QED
    BY <2>3, <2>4
<1>11. QED
  BY <1>5, <1>6, <1>7, <1>8, <1>9, <1>10 DEF IInv

LEMMA BeginBlockInv == ASSUME IInv, BeginBlock PROVE IInv'
<1> DEFINE scope == [opens |-> "block", symbols |-> Nothing]
<1>1. TypeOK /\ ScopesBuilt /\ Depth \in Nat /\ Depth > 1 /\ Depth < MaxScopes
  <2>1. TypeOK /\ ScopesBuilt /\ Depth \in Nat /\ Depth >= 1
    BY DepthIs DEF IInv
  <2>2. Depth # 1 /\ Depth < MaxScopes
    BY DEF BeginBlock, AtTopLevel
  <2>3. QED
    BY <2>1, <2>2
<1>2. scope \in Scope /\ scope.opens = "block" /\ \A m \in Names : scope.symbols[m] = None
  BY NoneIs DEF Scope
<1>3. scopes' = Append(scopes, scope)
  BY DEF BeginBlock
<1> HIDE DEF scope
<1>4. /\ scopes' \in Seq(Scope) /\ Depth' = Depth + 1 /\ scopes'[Depth + 1] = scope
      /\ \A i \in 1..Depth : scopes'[i] = scopes[i]
      /\ scopes'[1] = scopes[1]
  <2>1. scopes \in Seq(Scope)
    BY <1>1 DEF TypeOK
  <2>2. /\ Append(scopes, scope) \in Seq(Scope) /\ Len(Append(scopes, scope)) = Depth + 1
        /\ \A i \in 1..Depth : Append(scopes, scope)[i] = scopes[i]
        /\ Append(scopes, scope)[Depth + 1] = scope
    <3>1. Len(scopes) = Depth
      BY DEF Depth
    <3>2. QED
      BY <1>1, <1>2, <2>1, <3>1, PushedIs
  <2>3. Depth' = Len(scopes')
    BY DEF Depth
  <2>4. 1 \in 1..Depth
    BY <1>1
  <2>5. QED
    BY <1>3, <2>2, <2>3, <2>4
<1>5. /\ declared' = declared /\ namedValues' = namedValues /\ globalValues' = globalValues
      /\ functions' = functions /\ imported' = imported /\ currentFunction' = currentFunction
      /\ unknown' = unknown /\ use' = use /\ plain' = plain
  BY DEF BeginBlock, generatorState
<1>6. \A i \in 2..(Depth + 1) : i # 1 /\ ((i = Depth + 1 /\ i # 2 /\ scopes'[i] = scope)
                                \/ (i \in 2..Depth /\ scopes'[i] = scopes[i]))
  <2> SUFFICES ASSUME NEW i \in 2..(Depth + 1)
               PROVE  i # 1 /\ ((i = Depth + 1 /\ i # 2 /\ scopes'[i] = scope)
                                \/ (i \in 2..Depth /\ scopes'[i] = scopes[i]))
    OBVIOUS
  <2>1. CASE i = Depth + 1
    <3>1. i # 1 /\ i # 2
      BY <1>1, <2>1
    <3>2. scopes'[i] = scope
      BY <1>4, <2>1
    <3>3. i = Depth + 1
      BY <2>1
    <3>4. QED
      BY <3>1, <3>2, <3>3, Zenon
  <2>2. CASE i # Depth + 1
    <3>1. i \in 2..Depth /\ i \in 1..Depth
      BY <1>1, <2>2
    <3>2. QED
      BY <1>4, <3>1
  <2>3. QED
    BY <2>1, <2>2
<1>7. TypeOK'
  BY <1>1, <1>4, <1>5, BoundsAssumption DEF TypeOK
<1>8. ScopesBuilt'
  <2>1. currentFunction # 0
    BY <1>1 DEF ScopesBuilt
  <2>2. QED
    BY <1>1, <1>2, <1>4, <1>5, <1>6, <2>1 DEF ScopesBuilt
<1>9. LocalsAreVariables'
  BY <1>2, <1>4, <1>6, NoneIs DEF IInv, LocalsAreVariables
<1>10. OwnersSound' /\ (VariablesAgree => VariablesAgree') /\ (ModuleAgrees => ModuleAgrees')
      /\ (UsesAgree => UsesAgree') /\ (NoHidden' => NoHidden)
  BY <1>4, <1>5 DEF IInv, OwnersSound, VariablesAgree, ModuleAgrees, UsesAgree, NoHidden
<1>11. ASSUME plain PROVE BlocksShadowNothing' /\ LocalsAgree'
  <2>1. BlocksShadowNothing /\ LocalsAgree
    BY <1>11 DEF IInv
  <2>2. BlocksShadowNothing'
    <3>1. \A i \in 3..(Depth + 1) : i \in 2..(Depth + 1) /\ (i \in 2..Depth => i \in 3..Depth)
      BY <1>1
    <3>2. QED
      BY <1>2, <1>4, <1>6, <2>1, <3>1 DEF BlocksShadowNothing
  <2>3. ASSUME NEW m \in Names
        PROVE  /\ \A i, j \in 2..(Depth + 1) :
                     scopes'[i].symbols[m] # None /\ scopes'[j].symbols[m] # None => i = j
               /\ \A i \in 2..(Depth + 1) :
                     scopes'[i].symbols[m] # None => namedValues'[m] = scopes'[i].symbols[m]
               /\ (\A i \in 2..(Depth + 1) : scopes'[i].symbols[m] = None) /\ scopes'[1].symbols[m] # None
                     => namedValues'[m] = None
    <3>1. ~AtTopLevel
      BY <1>1 DEF AtTopLevel
    <3>2. /\ \A i, j \in 2..Depth :
                scopes[i].symbols[m] # None /\ scopes[j].symbols[m] # None => i = j
          /\ \A i \in 2..Depth :
                scopes[i].symbols[m] # None => namedValues[m] = scopes[i].symbols[m]
          /\ (\A i \in 2..Depth : scopes[i].symbols[m] = None) /\ scopes[1].symbols[m] # None
                => namedValues[m] = None
      BY <2>1, <3>1 DEF LocalsAgree, IsGlobal
    <3>3. \A i \in 2..Depth : i \in 2..(Depth + 1) /\ scopes'[i] = scopes[i]
      BY <1>1, <1>4
    <3>4. QED
      BY <1>2, <1>4, <1>5, <1>6, <3>2, <3>3
  <2>4. QED
    BY <1>4, <2>2, <2>3 DEF LocalsAgree, IsGlobal
<1>12. QED
  BY <1>5, <1>7, <1>8, <1>9, <1>10, <1>11 DEF IInv

LEMMA ImportInv == ASSUME IInv, Import PROVE IInv'
<1> DEFINE top == scopes[1]
           new == [n \in Names |-> IF n \in LibraryNames /\ ~Taken(n) THEN Library ELSE top.symbols[n]]
<1>1. TypeOK /\ ScopesBuilt /\ Depth = 1 /\ top \in Scope
  BY ScopeAt, DepthIs DEF IInv, Import, AtTopLevel
<1>2. /\ new \in [Names -> Symbol]
      /\ \A n \in Names : new[n] = IF n \in LibraryNames /\ top.symbols[n] = None THEN Library
                                   ELSE top.symbols[n]
  BY <1>1, NoneIs, ScopeAt DEF Taken, Innermost
<1>3. scopes' = [scopes EXCEPT ![1].symbols = new]
  BY <1>1 DEF Import
<1> HIDE DEF new
<1>4. scopes' \in Seq(Scope) /\ Depth' = 1 /\ scopes'[1].opens = top.opens /\ scopes'[1].symbols = new
  <2>1. [top EXCEPT !.symbols = new] \in Scope
    BY <1>1, <1>2 DEF Scope
  <2>2. scopes \in Seq(Scope) /\ Len(scopes) = 1
    BY <1>1 DEF TypeOK, Depth
  <2>3. scopes' = [scopes EXCEPT ![1] = [top EXCEPT !.symbols = new]]
    BY <1>3
  <2>4. scopes' \in Seq(Scope) /\ Len(scopes') = 1 /\ scopes'[1] = [top EXCEPT !.symbols = new]
    BY <2>1, <2>2, <2>3
  <2>5. QED
    BY <1>1, <2>4 DEF Depth, Scope
<1>5. /\ declared' = declared /\ namedValues' = namedValues /\ globalValues' = globalValues
      /\ imported' = TRUE /\ currentFunction' = currentFunction
      /\ unknown' = unknown /\ use' = use /\ plain' = plain
  BY DEF Import
<1>6. /\ functions' \in [Names -> Symbol]
      /\ \A n \in Names :
            functions'[n] = IF ~imported /\ n \in LibraryNames /\ functions[n] = None /\ globalValues[n] = None
                            THEN Library ELSE functions[n]
  <2>1. CASE imported
    BY <1>1, <2>1 DEF Import, TypeOK
  <2>2. CASE ~imported
    <3>1. functions' = [n \in Names |-> IF n \in LibraryNames THEN Created(n, Library)[n] ELSE functions[n]]
      BY <2>2 DEF Import
    <3>2. \A n \in Names : Created(n, Library)[n] =
              IF functions[n] = None /\ globalValues[n] = None THEN Library ELSE functions[n]
      BY <1>1 DEF Created, TypeOK
    <3>3. \A n \in Names : functions'[n] = IF n \in LibraryNames /\ functions[n] = None /\ globalValues[n] = None
                                           THEN Library ELSE functions[n]
      BY <3>1, <3>2
    <3>4. functions' \in [Names -> Symbol]
      BY <1>1, <3>1, <3>3, NoneIs DEF TypeOK
    <3>5. QED
      BY <2>2, <3>3, <3>4
  <2>3. QED
    BY <2>1, <2>2
<1>7. TypeOK'
  BY <1>1, <1>4, <1>5, <1>6 DEF TypeOK
<1>8. ScopesBuilt' /\ LocalsAreVariables' /\ BlocksShadowNothing' /\ LocalsAgree'
  <2>1. 2..1 = {} /\ 3..1 = {}
    OBVIOUS
  <2>2. QED
    BY <1>1, <1>4, <1>5, <2>1 DEF ScopesBuilt, LocalsAreVariables, BlocksShadowNothing, LocalsAgree, AtTopLevel
<1>9. OwnersSound' /\ (UsesAgree => UsesAgree') /\ (NoHidden' => NoHidden)
  BY <1>5 DEF IInv, OwnersSound, UsesAgree, NoHidden
<1>10. VariablesAgree => VariablesAgree'
  BY <1>2, <1>4, <1>5, NoneIs DEF VariablesAgree
<1>11. ModuleAgrees => ModuleAgrees'
  <2> SUFFICES ASSUME ModuleAgrees, NEW n \in Names
               PROVE  /\ new[n].kind \in {"function", "library"} =>
                            functions'[n] = new[n] /\ n \notin HiddenNames
                      /\ new[n] = None => functions'[n] = None \/ n \in HiddenNames
                      /\ globalValues[n] # None => new[n] # None
                      /\ n \in LibraryNames => new[n] # None
    BY <1>4, <1>5 DEF ModuleAgrees
  <2>1. /\ top.symbols[n].kind \in {"function", "library"} =>
              functions[n] = top.symbols[n] /\ n \notin HiddenNames
        /\ top.symbols[n] = None => functions[n] = None \/ n \in HiddenNames
        /\ globalValues[n] # None => top.symbols[n] # None
        /\ imported /\ n \in LibraryNames => top.symbols[n] # None
    BY DEF ModuleAgrees
  <2>2. n \in LibraryNames => n \notin HiddenNames
    BY NamesAssumption
  <2>3. QED
    BY <1>2, <1>6, <2>1, <2>2, NoneIs
<1>12. QED
  BY <1>5, <1>7, <1>8, <1>9, <1>10, <1>11 DEF IInv

\* A use changes nothing but what is known of it.
LEMMA UsedInv ==
    ASSUME IInv, NEW n \in Names, NEW kind \in {"read", "assign", "call"}, NEW gen \in Symbol,
           Used(kind, n, gen), plain' \in BOOLEAN, plain' => plain,
           kind # "call" /\ plain' => gen = Lookup(n),
           kind = "call" /\ NoHidden => gen = Lookup(n)
    PROVE  IInv'
<1>1. /\ scopes' = scopes /\ declared' = declared /\ namedValues' = namedValues
      /\ globalValues' = globalValues /\ functions' = functions /\ imported' = imported
      /\ currentFunction' = currentFunction
      /\ use' = [kind |-> kind, sema |-> Lookup(n), gen |-> gen]
      /\ unknown' \in BOOLEAN
  <2>1. unknown' \in BOOLEAN
    BY Zenon DEF Used, IInv, TypeOK
  <2>2. QED
    BY <2>1 DEF Used, generatorState
<1>2. TypeOK /\ Lookup(n) \in Symbol
  BY LookupType DEF IInv
<1>3. use' \in Use
  BY <1>1, <1>2 DEF Use
<1>4. Depth' = Depth
  BY <1>1 DEF Depth
<1>5. TypeOK'
  BY <1>1, <1>2, <1>3, <1>4 DEF TypeOK
<1>6. ScopesBuilt' /\ LocalsAreVariables' /\ OwnersSound'
  BY <1>1, <1>4 DEF IInv, ScopesBuilt, LocalsAreVariables, OwnersSound
<1>7. (LocalsAgree => LocalsAgree') /\ (BlocksShadowNothing => BlocksShadowNothing')
      /\ (VariablesAgree => VariablesAgree') /\ (ModuleAgrees => ModuleAgrees')
  BY <1>1, <1>4 DEF LocalsAgree, AtTopLevel, IsGlobal, BlocksShadowNothing, VariablesAgree, ModuleAgrees
<1>8. NoHidden' => UsesAgree' /\ NoHidden
  BY <1>1 DEF UsesAgree, NoHidden
<1>9. QED
  BY <1>5, <1>6, <1>7, <1>8 DEF IInv

\* In a plain program the generator has for a visible variable what the scopes have.
LEMMA VariableIs ==
    ASSUME IInv, plain, ~AtTopLevel, NEW n \in Names, Visible(n), Lookup(n).kind = "variable"
    PROVE  /\ Read(n) = Lookup(n)
           /\ ~IsGlobal(n) => namedValues[n] = Lookup(n)
<1>1. TypeOK /\ LocalsAgree /\ VariablesAgree /\ Depth \in Nat /\ Depth >= 1
  BY DepthIs DEF IInv
<1>2. PICK i \in 1..Depth : /\ Lookup(n) = scopes[i].symbols[n] /\ Lookup(n) # None
                            /\ \A j \in (i + 1)..Depth : scopes[j].symbols[n] = None
  BY <1>1, LookupIs
<1>3. CASE i = 1
  <2>1. IsGlobal(n)
    <3>1. \A j \in 2..Depth : j \in (i + 1)..Depth
      BY <1>1, <1>3
    <3>2. QED
      BY <1>2, <3>1 DEF IsGlobal
  <2>2. namedValues[n] = None /\ globalValues[n] = scopes[1].symbols[n]
    BY <1>1, <1>2, <1>3, <2>1 DEF LocalsAgree, VariablesAgree
  <2>3. QED
    BY <1>2, <1>3, <2>1, <2>2 DEF Read
<1>4. CASE i # 1
  <2>1. i \in 2..Depth
    BY <1>1, <1>4
  <2>2. namedValues[n] = scopes[i].symbols[n]
    BY <1>1, <1>2, <2>1 DEF LocalsAgree
  <2>3. QED
    BY <1>2, <2>2 DEF Read
<1>5. QED
  BY <1>3, <1>4

LEMMA ReadType == ASSUME TypeOK, NEW n \in Names PROVE Read(n) \in Symbol
BY DEF Read, TypeOK

LEMMA ReadNameInv == ASSUME IInv, NEW n \in Names, ReadName(n) PROVE IInv'
<1>1. /\ Used("read", n, Read(n)) /\ Visible(n) /\ ~AtTopLevel /\ TypeOK /\ plain \in BOOLEAN
      /\ Usual(Lookup(n).kind = "variable", "funcValue")
  BY DEF ReadName, IInv, TypeOK
<1>2. plain' \in BOOLEAN /\ (plain' => plain /\ Lookup(n).kind = "variable")
  BY <1>1, UsualIs
<1>3. plain' => Read(n) = Lookup(n)
  BY <1>1, <1>2, VariableIs
<1>4. QED
  BY <1>1, <1>2, <1>3, ReadType, UsedInv

LEMMA AssignInv == ASSUME IInv, NEW n \in Names, Assign(n) PROVE IInv'
<1>1. /\ Used("assign", n, namedValues[n]) /\ Visible(n) /\ ~AtTopLevel /\ TypeOK /\ plain \in BOOLEAN
      /\ namedValues[n] \in Symbol
  BY DEF Assign, IInv, TypeOK
<1>2. plain' \in BOOLEAN /\ (plain' => plain /\ Lookup(n).kind = "variable" /\ ~IsGlobal(n))
  <2>1. CASE Lookup(n).kind = "variable"
    <3>1. Usual(~IsGlobal(n), "globalAssign")
      BY <2>1 DEF Assign
    <3>2. QED
      BY <1>1, <2>1, <3>1, UsualIs
  <2>2. CASE Lookup(n).kind # "variable"
    <3>1. Usual(FALSE, "funcValue")
      BY <2>2 DEF Assign
    <3>2. QED
      BY <1>1, <3>1, UsualIs
  <2>3. QED
    BY <2>1, <2>2
<1>3. plain' => namedValues[n] = Lookup(n)
  BY <1>1, <1>2, VariableIs
<1>4. QED
  BY <1>1, <1>2, <1>3, UsedInv

LEMMA CallNameInv == ASSUME IInv, NEW n \in Names, CallName(n) PROVE IInv'
<1>1. /\ Used("call", n, functions[n]) /\ TypeOK /\ plain \in BOOLEAN /\ plain' = plain
      /\ Lookup(n).kind \in {"function", "library"} /\ functions[n] \in Symbol
  BY DEF CallName, IInv, TypeOK
<1>2. ASSUME NoHidden PROVE functions[n] = Lookup(n)
  <2>1. Visible(n)
    BY <1>1, NoneIs DEF Lookup
  <2>2. PICK i \in 1..Depth : Lookup(n) = scopes[i].symbols[n]
    BY <1>1, <2>1, LookupIs
  <2>3. i = 1
    <3> SUFFICES ASSUME i # 1 PROVE FALSE
      OBVIOUS
    <3>1. i \in 2..Depth
      BY <1>1, DepthIs
    <3>2. QED
      BY <1>1, <2>2, <3>1 DEF IInv, LocalsAreVariables
  <2>4. QED
    BY <1>1, <1>2, <2>2, <2>3 DEF IInv, ModuleAgrees
<1>3. QED
  BY <1>1, <1>2, UsedInv

LEMMA NextInv == ASSUME IInv, [Next]_vars PROVE IInv'
<1>1. ASSUME NEW n \in Names, NEW const \in BOOLEAN, DeclareVar(n, const) PROVE IInv'
  BY <1>1, DeclareVarInv
<1>2. ASSUME NEW n \in Names, NEW params \in {{}} \cup {{m} : m \in Names}, BeginFunc(n, params)
      PROVE  IInv'
  <2>1. params \in SUBSET Names
    OBVIOUS
  <2>2. QED
    BY <1>2, <2>1, BeginFuncInv
<1>3. CASE UNCHANGED vars
  <2>1. /\ scopes' = scopes /\ declared' = declared /\ namedValues' = namedValues
        /\ globalValues' = globalValues /\ functions' = functions /\ imported' = imported
        /\ currentFunction' = currentFunction /\ unknown' = unknown /\ use' = use /\ plain' = plain
        /\ Depth' = Depth
    BY <1>3 DEF vars, Depth
  <2>2. QED
    BY <2>1 DEF IInv, TypeOK, ScopesBuilt, LocalsAreVariables, LocalsAgree, AtTopLevel, IsGlobal,
           BlocksShadowNothing, VariablesAgree, NoHidden, ModuleAgrees, UsesAgree, OwnersSound
<1>4. ASSUME NEW n \in Names, ReadName(n) \/ Assign(n) \/ CallName(n) PROVE IInv'
  BY <1>4, ReadNameInv, AssignInv, CallNameInv
<1>5. QED
  BY <1>1, <1>2, <1>3, <1>4, LeaveInv, BeginBlockInv, ImportInv DEF Next

-----------------------------------------------------------------------------
(* What holds *)

\* The inductive invariant, for any shapes: how the scopes are nested, what only
\* they and what only the flat maps hold, and where both hold the same.
THEOREM Invariant == Spec => []IInv
<1>1. Init => IInv
  BY InitInv
<1>2. IInv /\ [Next]_vars => IInv'
  BY NextInv
<1>3. QED
  BY <1>1, <1>2, PTL DEF Spec

\* In a plain program of any size every name that is visible means the same in
\* both maps (SymbolTable.cpp:15-32; CodeGenerator.cpp:258-277, 748-799).
THEOREM NamesAgreeHolds == Spec => []NamesAgree
<1>1. IInv => NamesAgree
  BY DEF IInv, NamesAgree, ProgramAgrees, VariablesAgree, NoHidden, ModuleAgrees
<1>2. QED
  BY <1>1, Invariant, PTL

\* Every use of a name in a plain program, and every call in one that gives no
\* function the name of a hidden one, means the same to both phases
\* (CodeGenerator.cpp:258-277, 404-422, 464-479).  With a function of such a name
\* calls do differ: they reach the hidden one.
THEOREM UsesAgreeHolds == "hiddenFunc" \notin Shapes => (Spec => []UsesAgree)
<1> SUFFICES ASSUME "hiddenFunc" \notin Shapes PROVE Spec => []UsesAgree
  OBVIOUS
<1>1. IInv => UsesAgree
  BY DEF IInv, NoHidden
<1>2. QED
  BY <1>1, Invariant, PTL

\* No use in a function reaches a local of another one, however names are used
\* (CodeGenerator.cpp:756).
THEOREM NoForeignLocalHolds == Spec => []NoForeignLocal
<1>1. IInv => NoForeignLocal
  BY DEF IInv, OwnersSound, NoForeignLocal, Read
<1>2. QED
  BY <1>1, Invariant, PTL
=============================================================================
