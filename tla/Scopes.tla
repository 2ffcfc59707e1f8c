------------------------------- MODULE Scopes -------------------------------
(***************************************************************************)
(* What a name means, twice: in the semantic analyzer (src/sema/           *)
(* SemanticAnalyzer.cpp, SymbolTable.cpp), which opens a scope per block,  *)
(* and in the code generator (src/codegen/CodeGenerator.cpp), which has a  *)
(* flat map of the locals of a function, one of the globals, and the       *)
(* symbol table of the LLVM module.                                        *)
(*                                                                         *)
(* Both visit the declarations, blocks and uses of a program in the same   *)
(* order, and the generator visits only programs in which the analyzer     *)
(* found no error; so an action is the visit of one construct by both, and *)
(* its guard is that the analyzer has nothing to report.                   *)
(***************************************************************************)
EXTENDS Integers, Sequences

CONSTANTS
    Names,          \* identifiers
    LibraryNames,   \* functions of the module that a program may import
    HiddenNames,    \* functions that only the generator declares: printf
    MaxDecls,       \* declarations in a program
    MaxScopes,      \* scopes nested in one another, the program's included
    Shapes          \* the unusual uses of names that are explored

\* A declaration in an inner block of a name that is visible there, a variable
\* of the program after a function, an assignment to a variable of the program,
\* a function named as a value, a function with a hidden name.  Functions and
\* imports inside of a block, which the parser lets pass and the documented
\* grammar does not have, are left out.
AllShapes == {"blockShadow", "lateGlobal", "globalAssign", "funcValue", "hiddenFunc"}

ASSUME BoundsAssumption == MaxDecls \in Nat /\ MaxScopes \in Nat \ {0}

ASSUME NamesAssumption ==
    /\ LibraryNames \subseteq Names /\ HiddenNames \subseteq Names
    /\ LibraryNames \cap HiddenNames = {}

ASSUME ShapesAssumption == Shapes \subseteq AllShapes

\* A declaration; id tells apart those of the program, by order of visit, and
\* owner is the id of the function that it is local to.
Symbol == [kind  : {"none", "variable", "function", "library"},
           id    : 0..MaxDecls,
           const : BOOLEAN,
           owner : 0..MaxDecls]
None == [kind |-> "none", id |-> 0, const |-> FALSE, owner |-> 0]
Library == [None EXCEPT !.kind = "library"]
Nothing == [n \in Names |-> None]

Scope == [opens   : {"program", "func", "block"},   \* the construct that opened it
          symbols : [Names -> Symbol]]

VARIABLES
    scopes,         \* SymbolTable::scopes_, innermost last
    declared,       \* declarations of the program visited so far
    namedValues,    \* CodeGenerator::namedValues_
    globalValues,   \* CodeGenerator::globalValues_
    functions,      \* the functions of the LLVM module by the name they go by
    imported,       \* the module is in CodeGenerator::importedModules_
    currentFunction,\* the id of CodeGenerator::currentFunction_, 0 for null
    unknown,        \* the generator reported an unknown variable or function
    use,            \* the last use of a name: what it meant to either
    plain           \* the program has used names in no unusual way so far

vars == <<scopes, declared, namedValues, globalValues, functions, imported,
          currentFunction, unknown, use, plain>>
generatorState == <<namedValues, globalValues, functions, imported, currentFunction>>

\* A way to use names that is not explored, or that makes the program unusual.
Usual(usual, shape) == (usual \/ shape \in Shapes) /\ plain' = (plain /\ usual)

Use == [kind : {"none", "read", "assign", "call"}, sema : Symbol, gen : Symbol]

-----------------------------------------------------------------------------
(* The analyzer's scopes *)

Depth == Len(scopes)
Innermost == scopes[Depth]
AtTopLevel == Depth = 1

\* isDeclaredInCurrentScope
Taken(n) == Innermost.symbols[n] # None

Visible(n) == \E i \in 1..Depth : scopes[i].symbols[n] # None

\* SymbolTable::lookup: the innermost scope that has the name.
Lookup(n) ==
    IF ~Visible(n) THEN None
    ELSE LET found == CHOOSE i \in 1..Depth :
                        /\ scopes[i].symbols[n] # None
                        /\ \A j \in (i + 1)..Depth : scopes[j].symbols[n] = None
         IN scopes[found].symbols[n]

\* SymbolTable::declare, where it succeeds.
Declared(n, sym) == [scopes EXCEPT ![Depth].symbols[n] = sym]

\* The program scope has the name.
IsGlobal(n) == \A i \in 2..Depth : scopes[i].symbols[n] = None

-----------------------------------------------------------------------------
(* The generator's maps *)

GlobalFirst(n) == IF globalValues[n] # None THEN globalValues[n] ELSE namedValues[n]

\* visit(Identifier): a local of the function, or else a global.
Read(n) == IF namedValues[n] # None THEN namedValues[n] ELSE globalValues[n]

\* llvm::Function::Create: a name that the module has already is left to its
\* owner, and the new function goes by another.
Created(n, f) ==
    IF functions[n] # None \/ globalValues[n] # None THEN functions
    ELSE [functions EXCEPT ![n] = f]

Merged(params) == [n \in Names |-> IF params[n] # None THEN params[n] ELSE namedValues[n]]

\* namedValues_ once a function begins: cleared, then its parameters.
LocalsOf(params) == params

-----------------------------------------------------------------------------
Init ==
    /\ scopes = <<[opens |-> "program", symbols |-> Nothing]>>
    /\ declared = 0
    /\ namedValues = Nothing /\ globalValues = Nothing
    /\ functions = [n \in Names |-> IF n \in HiddenNames THEN Library ELSE None]
    /\ imported = FALSE
    /\ currentFunction = 0
    /\ unknown = FALSE
    /\ use = [kind |-> "none", sema |-> None, gen |-> None]
    /\ plain = TRUE

\* A variable: to the generator a global if it has seen no function yet, or
\* else a local of the last function.
DeclareVar(n, const) ==
    /\ ~Taken(n)
    /\ declared < MaxDecls
    /\ IF AtTopLevel THEN Usual(currentFunction = 0, "lateGlobal")
       ELSE Usual(Innermost.opens = "func" \/ ~Visible(n), "blockShadow")
    /\ LET sym == [kind |-> "variable", id |-> declared + 1, const |-> const,
                   owner |-> IF AtTopLevel THEN 0 ELSE currentFunction]
       IN /\ scopes' = Declared(n, sym)
          /\ IF currentFunction = 0
             THEN /\ globalValues' = [globalValues EXCEPT ![n] = sym]
                  /\ UNCHANGED namedValues
             ELSE /\ namedValues' = [namedValues EXCEPT ![n] = sym]
                  /\ UNCHANGED globalValues
    /\ declared' = declared + 1
    /\ UNCHANGED <<functions, imported, currentFunction, unknown, use>>

\* A function up to its body, with a parameter of each name in params: the
\* analyzer has one scope for the parameters and the body.
BeginFunc(n, params) ==
    /\ ~Taken(n)
    /\ declared < MaxDecls
    /\ AtTopLevel /\ MaxScopes > 1
    /\ Usual(n \notin HiddenNames, "hiddenFunc")
    /\ LET f == declared + 1
           sym == [kind |-> "function", id |-> f, const |-> FALSE, owner |-> 0]
           locals == [m \in Names |-> IF m \in params
                                      THEN [kind |-> "variable", id |-> f, const |-> FALSE,
                                            owner |-> f]
                                      ELSE None]
       IN /\ scopes' = Append(Declared(n, sym), [opens |-> "func", symbols |-> locals])
          /\ functions' = Created(n, sym)
          /\ namedValues' = LocalsOf(locals)
          /\ currentFunction' = f
          /\ declared' = f
    /\ UNCHANGED <<globalValues, imported, unknown, use>>

\* The analyzer leaves the scope; to the generator the function stays current.
EndFunc ==
    /\ Innermost.opens = "func"
    /\ scopes' = SubSeq(scopes, 1, Depth - 1)
    /\ UNCHANGED <<declared, generatorState, unknown, use, plain>>

BeginBlock ==
    /\ ~AtTopLevel
    /\ Depth < MaxScopes
    /\ scopes' = Append(scopes, [opens |-> "block", symbols |-> Nothing])
    /\ UNCHANGED <<declared, generatorState, unknown, use, plain>>

\* The generator keeps the block's locals in its map.
EndBlock ==
    /\ Innermost.opens = "block"
    /\ scopes' = SubSeq(scopes, 1, Depth - 1)
    /\ UNCHANGED <<declared, generatorState, unknown, use, plain>>

\* An import: the analyzer passes over names that are taken in the scope, the
\* generator declares the functions once.
Import ==
    /\ AtTopLevel
    /\ scopes' = [scopes EXCEPT ![Depth].symbols =
                    [n \in Names |-> IF n \in LibraryNames /\ ~Taken(n) THEN Library ELSE @[n]]]
    /\ functions' = IF imported THEN functions
                    ELSE [n \in Names |-> IF n \in LibraryNames THEN Created(n, Library)[n]
                                          ELSE functions[n]]
    /\ imported' = TRUE
    /\ UNCHANGED <<declared, namedValues, globalValues, currentFunction, unknown, use, plain>>

Used(kind, n, gen) ==
    /\ use' = [kind |-> kind, sema |-> Lookup(n), gen |-> gen]
    /\ unknown' = (unknown \/ gen = None)
    /\ UNCHANGED <<scopes, declared, generatorState>>

\* A name in an expression of a function's body.
ReadName(n) ==
    /\ ~AtTopLevel
    /\ Visible(n)
    /\ Usual(Lookup(n).kind = "variable", "funcValue")
    /\ Used("read", n, Read(n))

\* An assignment: the generator looks for locals only, and no visit asks
\* whether the variable is a constant.
Assign(n) ==
    /\ ~AtTopLevel
    /\ Visible(n)
    /\ IF Lookup(n).kind = "variable" THEN Usual(~IsGlobal(n), "globalAssign")
       ELSE Usual(FALSE, "funcValue")
    /\ Used("assign", n, namedValues[n])

\* A call: the analyzer refuses names that are not functions.
CallName(n) ==
    /\ ~AtTopLevel
    /\ Lookup(n).kind \in {"function", "library"}
    /\ Used("call", n, functions[n])
    /\ UNCHANGED plain

Next ==
    \/ \E n \in Names, const \in BOOLEAN : DeclareVar(n, const)
    \/ \E n \in Names, params \in {{}} \cup {{m} : m \in Names} : BeginFunc(n, params)
    \/ EndFunc
    \/ BeginBlock
    \/ EndBlock
    \/ Import
    \/ \E n \in Names : ReadName(n) \/ Assign(n) \/ CallName(n)

Spec == Init /\ [][Next]_vars

-----------------------------------------------------------------------------
(* What a programmer expects of names *)

\* Type correctness.
TypeOK ==
    /\ scopes \in Seq(Scope) /\ Depth \in 1..MaxScopes
    /\ declared \in 0..MaxDecls
    /\ namedValues \in [Names -> Symbol] /\ globalValues \in [Names -> Symbol]
    /\ functions \in [Names -> Symbol]
    /\ imported \in BOOLEAN /\ unknown \in BOOLEAN
    /\ currentFunction \in 0..MaxDecls
    /\ use \in Use /\ plain \in BOOLEAN

\* In plain programs a name means the same to the analyzer and to the
\* generator, and what the analyzer accepts the generator knows; also in
\* programs that shadow names in blocks a call calls the function that the
\* analyzer checked the call against (SemanticAnalyzer.cpp:58-67, 99-129;
\* CodeGenerator.cpp:258-277, 404-422, 464-479).
UsesAgree == plain \/ use.kind = "call" => use.gen = use.sema

\* Why they agree: in a function a name has at most
\* one declaration below the program scope, and the flat map holds it, while a
\* local that a closed block left in the map hides no name of the program.
LocalsAgree ==
    ~AtTopLevel => \A n \in Names :
        /\ \A i, j \in 2..Depth :
              scopes[i].symbols[n] # None /\ scopes[j].symbols[n] # None => i = j
        /\ \A i \in 2..Depth :
              scopes[i].symbols[n] # None => namedValues[n] = scopes[i].symbols[n]
        /\ IsGlobal(n) /\ scopes[1].symbols[n] # None => namedValues[n] = None

ProgramAgrees ==
    \A n \in Names :
        /\ scopes[1].symbols[n].kind = "variable" => globalValues[n] = scopes[1].symbols[n]
        /\ scopes[1].symbols[n].kind \in {"function", "library"} =>
              functions[n] = scopes[1].symbols[n]

NamesAgree == TypeOK /\ (plain => LocalsAgree /\ ProgramAgrees)

\* Also in programs that shadow names: no use reaches a local of another function, which would refer to
\* a stack slot of another frame (CodeGenerator.cpp:756).
NoForeignLocal ==
    ~AtTopLevel => \A n \in Names : Read(n).owner \in {0, currentFunction}

\* A declaration is reported only if its name is taken "in this scope"
\* (SemanticAnalyzer.cpp:175), and the generator looks for "local variables
\* first (function scope)" (CodeGenerator.cpp:259): what is read in a function
\* is what the analyzer's innermost scope has.
ReadsInnermost == use.kind = "read" => use.gen = use.sema
=============================================================================
